---------------------------- MODULE Spec2Model ----------------------------
(***************************************************************************)
(* A model of the AI bug fixer: the token-budgeted context assembler       *)
(* (UnifiedContextEngine.gatherContextForBug), the parser of the model's   *)
(* reply (AIBugFixerAgent.parseClaudeResponse), the fix pipeline           *)
(* (AIBugFixerAgent.fixBug), the webhook handler (api/webhook), the        *)
(* command line tool (cli.ts) and two webhook deliveries that share one    *)
(* checkout.                                                               *)
(*                                                                         *)
(* File contents, search hits and commit messages are represented by their *)
(* lengths in characters: the assembler only ever measures them.           *)
(***************************************************************************)
EXTENDS Integers, Sequences, FiniteSets, TLC

VARIABLES
    \* ---- gatherContextForBug (src/lib/context-engine.ts) ----
    ctxPc,            \* position in gatherContextForBug
    signals,          \* extractSignalsFromIssue(issue): [files, errors]
    fileIdx,          \* index of the next path of signals.files the loop visits
    tokensUsed,       \* the running total
    staticContext,    \* context.staticContext: [kind, len]
    relevantFiles,    \* context.relevantFiles: sequence of [path, len]
    searchResults,    \* context.searchResults: sequence of hits
    recentCommits,    \* context.recentCommits: sequence of commit records
    estimatedTokens,  \* context.estimatedTokens
    fileLog,          \* what each loop iteration did: [path, outcome, tokens, before, after]
    searchCall,       \* the searchCode call made: [ran, pattern, hits]
    commitCall,       \* the getRecentCommits call made: [ran, filePath, limit, failed, history]
    tokAfter,         \* the running total after each step: [notes, files, search]
    \* ---- parseClaudeResponse (src/lib/ai-agent.ts) ----
    parsePc,          \* "start" before the call, "done" after it
    reply,            \* the model's reply: [kind, prefix, doc, suffix, text]
    parseResult,      \* what parseClaudeResponse returned
    \* ---- fixBug (src/lib/ai-agent.ts) and the checkout it works in ----
    fixPc,            \* position in fixBug
    issue,            \* the issue fixBug was called with
    branches,         \* the branches of the checkout
    currentBranch,    \* the branch the checkout is on
    written,          \* the paths written to the checkout, in order
    staged,           \* the paths staged with git add, in order
    commits,          \* the commits made: [branch, files]
    pushed,           \* the branches pushed to origin
    prs,              \* the pull requests opened: [branch, number]
    fix,              \* what analyzeAndFix returned
    applyIdx,         \* index of the next change the apply loop writes
    fixSteps,         \* the steps fixBug ran, in order: [step, out, msg]
    fixResult,        \* the FixResult fixBug returned
    \* ---- the webhook handler (src/unnamed/part_002) ----
    hookPc,           \* position in handler
    request,          \* the delivery: [method, signature, body]
    env,              \* process.env: [secret, repoMapping, githubRepository]
    repoInfo,         \* extractRepoInfo(payload), once the handler has called it
    gitCalls,         \* the git commands cloneRepository ran, in order
    commentLog,       \* the postLinearComment calls: [issueId, kind, sent]
    responses,        \* the responses sent: [status, kind, success, text]
    \* ---- the command line tool (src/cli.ts) ----
    cliPc,            \* position in main
    argv,             \* process.argv.slice(2)
    cliEnv,           \* process.env: which of the variables are set
    printed,          \* what main printed: [stream, text]
    exitStatus,       \* the exit status of the process, -1 while it runs
    \* ---- two deliveries at once (src/unnamed/part_002, src/lib/ai-agent.ts) ----
    runs,             \* each delivery's handler and fixBug run
    checkouts         \* the checkout at each path under /tmp

ctxVars == << ctxPc, signals, fileIdx, tokensUsed, staticContext, relevantFiles,
              searchResults, recentCommits, estimatedTokens, fileLog, searchCall,
              commitCall, tokAfter >>

parseVars == << parsePc, reply, parseResult >>

fixVars == << fixPc, issue, branches, currentBranch, written, staged, commits,
              pushed, prs, fix, applyIdx, fixSteps, fixResult >>

hookVars == << hookPc, request, env, repoInfo, gitCalls, commentLog, responses >>

cliVars == << cliPc, argv, cliEnv, printed, exitStatus >>

raceVars == << runs, checkouts >>

vars == << ctxVars, parseVars, fixVars, hookVars, cliVars, raceVars >>

-----------------------------------------------------------------------------
(* Bounds of the model *)

\* the most file paths the signal extractor yields for one issue
MaxFiles == 3
\* the most lines of the checkout that contain the searched error string
MaxHits == 21
\* the most commits the repository's history holds
MaxHistory == 6
\* the most lexemes of prose before and after the reply's JSON object
MaxProse == 1
\* the most entries of a reply's changes list
MaxChanges == 2

Min(a, b) == IF a < b THEN a ELSE b

-----------------------------------------------------------------------------
(* Program constants and pure helpers of the context engine *)

TOKEN_BUDGET == 100000

\* TOKEN_BUDGET * 0.7, * 0.8, * 0.85
FileThreshold == (TOKEN_BUDGET * 70) \div 100
SearchThreshold == (TOKEN_BUDGET * 80) \div 100
CommitThreshold == (TOKEN_BUDGET * 85) \div 100

\* searchResults.slice(0, 20)
SearchKeep == 20
\* getRecentCommits(undefined, 5)
CommitLimit == 5

\* 'No project context file found.'
PlaceholderLen == 30

\* an estimate that rounds down
estimateTokensFloor(len) == len \div 4

\* Math.ceil(text.length / 4)
estimateTokens(len) == (len + 3) \div 4

\* the number of decimal digits of a line number
Digits(n) == IF n < 10 THEN 1 ELSE IF n < 100 THEN 2 ELSE IF n < 1000 THEN 3 ELSE 4

\* {"file":"F","line":N,"content":"C"}
HitJsonLen(h) == 32 + h.flen + Digits(h.line) + h.clen

\* {"sha":"<40 hex>","message":"M","author":"A","date":"<25 chars of %ai>"}
CommitJsonLen(c) == 110 + c.mlen + c.alen

\* JSON.stringify of an array of n elements whose serializations have the
\* lengths sum in total: the brackets, the elements, a comma between two
JsonArrayLen(n, sum) == IF n = 0 THEN 2 ELSE 2 + sum + (n - 1)

RECURSIVE SumHitJson(_, _)
\* the serialized lengths of the first n hits of s, added up
SumHitJson(s, n) == IF n = 0 THEN 0 ELSE HitJsonLen(s[n]) + SumHitJson(s, n - 1)

RECURSIVE SumCommitJson(_, _)
\* the serialized lengths of the first n commit records of s, added up
SumCommitJson(s, n) == IF n = 0 THEN 0 ELSE CommitJsonLen(s[n]) + SumCommitJson(s, n - 1)

\* JSON.stringify(context.searchResults).length
HitsJsonLen(s) == JsonArrayLen(Len(s), SumHitJson(s, Len(s)))

\* JSON.stringify(context.recentCommits).length
CommitsJsonLen(s) == JsonArrayLen(Len(s), SumCommitJson(s, Len(s)))

\* the file loop's break test
LoopBreaks(used) == used >= FileThreshold

\* an inclusion test that lets a file bring the total to the threshold
FileFitsAtMost(used, tokens) == used + tokens <= FileThreshold

\* the file loop's inclusion test
FileFits(used, tokens) == used + tokens < FileThreshold

\* a loop that stops at the first file rejected for size
AfterRejectedBreaks(i, n) == n + 1

\* the index the file loop goes to after a readable file was rejected for size:
\* the body has no else branch, the loop goes on with the next path
AfterRejected(i, n) == i + 1

\* a loop that an unreadable path ends
AfterUnreadableBreaks(i, n) == n + 1

\* the index the file loop goes to after a path could not be read
AfterUnreadable(i, n) == i + 1

\* step 4's guard
ShouldSearch(errors, used) == Len(errors) > 0 /\ used < SearchThreshold

\* a search for the last extracted error string
SearchPatternLast(errors) == errors[Len(errors)]

\* the pattern handed to searchCode
SearchPattern(errors) == errors[1]

\* searchResults.slice(0, 20)
KeepHits(hits) == SubSeq(hits, 1, Min(SearchKeep, Len(hits)))

\* step 5's guard
ShouldFetchCommits(used) == used < CommitThreshold

\* no path argument: git log of the whole repository
NoFile == "undefined"

\* whether the commit with this sha touches the path (the checkout's history)
Touches(sha, path) == (sha % 2 = 1) = (path = "f1")

\* git log -<limit> [-- "<filePath>"], most recent first
GetRecentCommits(history, filePath, limit) ==
    LET sel == IF filePath = NoFile THEN history
               ELSE SelectSeq(history, LAMBDA c : Touches(c.sha, filePath))
    IN SubSeq(sel, 1, Min(limit, Len(sel)))

\* a call that leaves the limit to getRecentCommits' default of 10
CommitArgsDefaultLimit == [filePath |-> NoFile, limit |-> 10]

\* the arguments of step 5's getRecentCommits call
CommitArgs == [filePath |-> NoFile, limit |-> CommitLimit]

-----------------------------------------------------------------------------
(* The inputs gatherContextForBug meets *)

Paths == << "f1", "f2", "f3", "f4" >>

ErrorLists == { << >>, << "Error: e1" >>, << "Error: e1", "TypeError: e2" >> }

\* what extractSignalsFromIssue yields: distinct paths, distinct error lines
SignalSets ==
    { [files |-> SubSeq(Paths, 1, n), errors |-> e] :
        n \in 0..Min(MaxFiles, Len(Paths)), e \in ErrorLists }

\* lengths of .ai/context.md in characters
NotesLens == { 0, 120000, 300000, 328000, 360000, 400004 }

\* lengths of a mentioned file in characters
FileLens == { 3, 120000, 159996, 160000 }

\* lengths of a matching line, trimmed
HitContentLens == { 16, 60000 }

\* lengths of a commit subject
CommitMsgLens == { 20, 80000 }

\* the hits of a search for pattern p, in the order searchCode appends them
HitLists(p) ==
    { [k \in 1..n |-> [line |-> k, flen |-> 8, clen |-> c, pat |-> p]] :
        n \in {0, 1, MaxHits}, c \in HitContentLens }

\* the checkout's history, most recent first
Histories ==
    { [k \in 1..n |-> [sha |-> k, mlen |-> m, alen |-> 5]] :
        n \in {0, 3, MaxHistory}, m \in CommitMsgLens }

-----------------------------------------------------------------------------
(* JavaScript values, and the model's reply as a sequence of lexemes *)

\* A value: t is its type; s the characters of a string; n the number of
\* characters a cut took of the lexeme it ends in (raw text only); keys and
\* items the members of an object, items the elements of an array or the
\* whole lexemes of raw text.
Val(t, s, n, keys, items) == [t |-> t, s |-> s, n |-> n, keys |-> keys, items |-> items]
Undefined == Val("undefined", "", 0, << >>, << >>)
Null == Val("null", "", 0, << >>, << >>)
Str(s) == Val("string", s, 0, << >>, << >>)
Arr(items) == Val("array", "", 0, << >>, items)
Obj(keys, items) == Val("object", "", 0, keys, items)

\* the string literals a reply is written with (a lexeme "r1" is the literal
\* with the characters r1 between its quotes)
StrLits == { "reasoning", "description", "changes", "path", "content", "testPlan",
             "", "r1", "d1", "t1", "x", "a.ts", "b.ts", "c.ts", "c1", "c2", "c3" }

\* a run of prose of 600 characters
LongProse == "Lorem"

\* the lexemes of prose: words, and the brace characters
ProseLexemes == { "Here", LongProse, "{", "}" }

\* the number of characters of a lexeme in the reply's text
CharLen(lex) ==
    IF lex \in StrLits THEN Len(lex) + 2
    ELSE IF lex = LongProse THEN 600
    ELSE Len(lex)

\* text.slice(0, 500)'s limit
SliceLimit == 500

RECURSIVE WholeLexemes(_, _, _)
\* how many lexemes of text, from the k-th on, lie wholly within limit characters
WholeLexemes(text, k, limit) ==
    IF k > Len(text) \/ CharLen(text[k]) > limit THEN 0
    ELSE 1 + WholeLexemes(text, k + 1, limit - CharLen(text[k]))

RECURSIVE CharsOf(_, _)
\* the number of characters of the first n lexemes of text
CharsOf(text, n) == IF n = 0 THEN 0 ELSE CharLen(text[n]) + CharsOf(text, n - 1)

\* a slice that keeps the whole text
SliceWhole(text, limit) ==
    Val("raw", "", 0, << >>, [k \in 1..Len(text) |-> Str(text[k])])

\* text.slice(0, limit): the whole lexemes it holds and the number of
\* characters it keeps of the lexeme it cuts
Slice(text, limit) ==
    LET w == WholeLexemes(text, 1, limit)
    IN Val("raw", "", IF w < Len(text) THEN limit - CharsOf(text, w) ELSE 0, << >>,
           [k \in 1..w |-> Str(text[k])])

\* text.match(/\{[\s\S]*\}/): from the first { to the last } after it
JsonMatch(text) ==
    LET opens == { i \in DOMAIN text : text[i] = "{" }
        closes == { i \in DOMAIN text : text[i] = "}" }
        first == CHOOSE i \in opens : \A j \in opens : i <= j
        last == CHOOSE i \in closes : \A j \in closes : j <= i
    IN IF opens # {} /\ closes # {} /\ first < last
       THEN [found |-> TRUE, slice |-> SubSeq(text, first, last)]
       ELSE [found |-> FALSE, slice |-> << >>]

ParseFail == [ok |-> FALSE, v |-> Undefined, next |-> 0]

RECURSIVE PValue(_, _)
RECURSIVE PElements(_, _, _)
RECURSIVE PMembers(_, _, _, _)

\* JSON.parse, a value starting at lexeme i: [ok, v, next]
PValue(t, i) ==
    IF i > Len(t) THEN ParseFail
    ELSE IF t[i] \in StrLits THEN [ok |-> TRUE, v |-> Str(t[i]), next |-> i + 1]
    ELSE IF t[i] = "null" THEN [ok |-> TRUE, v |-> Null, next |-> i + 1]
    ELSE IF t[i] = "[" THEN
        IF i + 1 <= Len(t) /\ t[i + 1] = "]"
        THEN [ok |-> TRUE, v |-> Arr(<< >>), next |-> i + 2]
        ELSE PElements(t, i + 1, << >>)
    ELSE IF t[i] = "{" THEN
        IF i + 1 <= Len(t) /\ t[i + 1] = "}"
        THEN [ok |-> TRUE, v |-> Obj(<< >>, << >>), next |-> i + 2]
        ELSE PMembers(t, i + 1, << >>, << >>)
    ELSE ParseFail

\* JSON.parse, the elements of an array from lexeme i on, acc those read
PElements(t, i, acc) ==
    LET r == PValue(t, i)
    IN IF ~r.ok \/ r.next > Len(t) THEN ParseFail
       ELSE IF t[r.next] = "," THEN PElements(t, r.next + 1, Append(acc, r.v))
       ELSE IF t[r.next] = "]"
            THEN [ok |-> TRUE, v |-> Arr(Append(acc, r.v)), next |-> r.next + 1]
       ELSE ParseFail

\* JSON.parse, the members of an object from lexeme i on, keys and vals those read
PMembers(t, i, keys, vals) ==
    IF i + 1 > Len(t) \/ t[i] \notin StrLits \/ t[i + 1] # ":" THEN ParseFail
    ELSE LET r == PValue(t, i + 2)
         IN IF ~r.ok \/ r.next > Len(t) THEN ParseFail
            ELSE IF t[r.next] = ","
                 THEN PMembers(t, r.next + 1, Append(keys, t[i]), Append(vals, r.v))
            ELSE IF t[r.next] = "}"
                 THEN [ok |-> TRUE, v |-> Obj(Append(keys, t[i]), Append(vals, r.v)),
                       next |-> r.next + 1]
            ELSE ParseFail

\* JSON.parse(text): one value and nothing after it, or a SyntaxError
JsonParse(text) ==
    LET r == PValue(text, 1)
    IN IF r.ok /\ r.next = Len(text) + 1 THEN [ok |-> TRUE, v |-> r.v]
       ELSE [ok |-> FALSE, v |-> Undefined]

\* obj.key: the value of the last member with that key, undefined without one
Get(obj, key) ==
    LET at == { i \in DOMAIN obj.keys : obj.keys[i] = key }
    IN IF obj.t # "object" \/ at = {} THEN Undefined
       ELSE obj.items[CHOOSE i \in at : \A j \in at : j <= i]

\* whether !v is false
Truthy(v) == v.t \in {"array", "object"} \/ (v.t = "string" /\ v.s # "")

\* Array.isArray(v)
IsArray(v) == v.t = "array"

\* the error strings of parseClaudeResponse; every message of a SyntaxError
\* of JSON.parse stands as the one string SyntaxErrorMessage
NoJsonError == "No JSON found in response"
SyntaxErrorMessage == "SyntaxError: Unexpected token in JSON"
InvalidStructureError == "Invalid response structure"
NoFixError == "AI could not generate a confident fix"
NoError == "undefined"

\* the catch block's result
ParseFailure(text, message) ==
    [success |-> FALSE, changes |-> << >>,
     description |-> Str("Failed to parse AI response"),
     reasoning |-> Slice(text, SliceLimit), error |-> message]

\* a validation that lets an empty changes list through
HasNoChangesNever(parsed) == FALSE

\* parsed.changes.length === 0
HasNoChanges(parsed) == Len(Get(parsed, "changes").items) = 0

\* a match from the first { to the first } after it
JsonMatchFirstClose(text) ==
    LET opens == { i \in DOMAIN text : text[i] = "{" }
        first == CHOOSE i \in opens : \A j \in opens : i <= j
        closes == { i \in DOMAIN text : text[i] = "}" /\ i > first }
        last == CHOOSE i \in closes : \A j \in closes : i <= j
    IN IF opens # {} /\ closes # {}
       THEN [found |-> TRUE, slice |-> SubSeq(text, first, last)]
       ELSE [found |-> FALSE, slice |-> << >>]

\* the match parseClaudeResponse makes
ExtractJson(text) == JsonMatch(text)

\* parseClaudeResponse(text)
ParseClaudeResponse(text) ==
    LET m == ExtractJson(text)
        p == JsonParse(m.slice)
        parsed == p.v
    IN IF ~m.found THEN ParseFailure(text, NoJsonError)
       ELSE IF ~p.ok THEN ParseFailure(text, SyntaxErrorMessage)
       ELSE IF \/ ~Truthy(Get(parsed, "reasoning"))
               \/ ~Truthy(Get(parsed, "description"))
               \/ ~IsArray(Get(parsed, "changes"))
            THEN ParseFailure(text, InvalidStructureError)
       ELSE IF HasNoChanges(parsed)
            THEN [success |-> FALSE, changes |-> << >>,
                  description |-> Get(parsed, "description"),
                  reasoning |-> Get(parsed, "reasoning"), error |-> NoFixError]
       ELSE [success |-> TRUE, changes |-> Get(parsed, "changes").items,
             description |-> Get(parsed, "description"),
             reasoning |-> Get(parsed, "reasoning"), error |-> NoError]

-----------------------------------------------------------------------------
(* The replies the model can give *)

RECURSIVE Ser(_)
RECURSIVE SerElements(_, _)
RECURSIVE SerMembers(_, _)

\* the lexemes a value is written with
Ser(v) ==
    IF v.t = "string" THEN << v.s >>
    ELSE IF v.t = "array" THEN << "[" >> \o SerElements(v.items, 1) \o << "]" >>
    ELSE IF v.t = "object" THEN << "{" >> \o SerMembers(v, 1) \o << "}" >>
    ELSE << "null" >>

\* the elements from the k-th on, a comma between two
SerElements(items, k) ==
    IF k > Len(items) THEN << >>
    ELSE Ser(items[k])
         \o (IF k < Len(items) THEN << "," >> ELSE << >>)
         \o SerElements(items, k + 1)

\* the members from the k-th on, a comma between two
SerMembers(obj, k) ==
    IF k > Len(obj.keys) THEN << >>
    ELSE << obj.keys[k], ":" >> \o Ser(obj.items[k])
         \o (IF k < Len(obj.keys) THEN << "," >> ELSE << >>)
         \o SerMembers(obj, k + 1)

\* the changes the model proposes: {path, content} objects
ChangePaths == << "a.ts", "b.ts", "c.ts" >>
ChangeContents == << "c1", "c2", "c3" >>
Change(k) == Obj(<< "path", "content" >>, << Str(ChangePaths[k]), Str(ChangeContents[k]) >>)
ChangeList(n) == Arr([k \in 1..n |-> Change(k)])

\* the member of a reply's object for a key: absent when the value is undefined
Member(key, v) == IF v = Undefined THEN << >> ELSE << [key |-> key, v |-> v] >>

\* a reply's object with these values, in the order the prompt asks for
Doc(r, d, c, tp) ==
    LET ms == Member("reasoning", r) \o Member("description", d)
                \o Member("changes", c) \o Member("testPlan", tp)
    IN Obj([k \in 1..Len(ms) |-> ms[k].key], [k \in 1..Len(ms) |-> ms[k].v])

Docs ==
    { Doc(r, d, c, tp) :
        r \in { Undefined, Str(""), Str("r1"), Obj(<< "x" >>, << Str("x") >>) },
        d \in { Undefined, Str(""), Str("d1") },
        c \in { Undefined, Null, Str("x") }
                \cup { ChangeList(n) : n \in 0..Min(MaxChanges, Len(ChangePaths)) }
                \cup { Arr(<< Str("x") >>) },
        tp \in { Undefined, Str("t1") } }

\* prose of at most MaxProse lexemes
ProseSeqs == UNION { [1..n -> ProseLexemes] : n \in 0..MaxProse }

\* replies without an object, or with a malformed one
OtherTexts ==
    { << >>, << "Here" >>, << LongProse, "Here" >>, << "}", "{" >>, << "{" >>,
      << "{", "reasoning", "}" >>, << "{", "reasoning", ":", "r1", ",", "}" >>,
      << "{", "changes", ":", "[", "}" >>, << "{", "Here", "}" >> }

Replies ==
    { [kind |-> "wrapped", prefix |-> pre, doc |-> doc, suffix |-> suf,
       text |-> pre \o Ser(doc) \o suf] :
        pre \in ProseSeqs, doc \in Docs, suf \in ProseSeqs }
    \cup
    { [kind |-> "other", prefix |-> << >>, doc |-> Undefined, suffix |-> << >>,
       text |-> t] : t \in OtherTexts }

NoResult ==
    [success |-> FALSE, changes |-> << >>, description |-> Undefined,
     reasoning |-> Undefined, error |-> NoError]

\* the parser's variables outside a specification of the parser
ParseIdle ==
    /\ parsePc = "idle"
    /\ reply = [kind |-> "other", prefix |-> << >>, doc |-> Undefined,
                suffix |-> << >>, text |-> << >>]
    /\ parseResult = NoResult


-----------------------------------------------------------------------------
(* fixBug: the issue, the checkout, the results *)

IssueIds == { "LIN-1", "lin-2" }

\* issue.id.toLowerCase()
ToLowerCase(id) ==
    CASE id = "LIN-1" -> "lin-1"
      [] id = "NAV" -> "nav"
      [] id = "API" -> "api"
      [] id = "Ops" -> "ops"
      [] id = "AI-Fix" -> "ai-fix"
      [] id = "CLI-TEST" -> "cli-test"
      [] OTHER -> id

\* `fix/${issue.id.toLowerCase()}`
BranchName(id) == "fix/" \o ToLowerCase(id)

\* the messages of the errors the steps throw
GatherErrors == { "EACCES: permission denied, scandir" }
BranchErrors == { "Failed to create branch" }
WriteErrors == { "EACCES: permission denied, open" }
PathTypeError == "The \"path\" argument must be of type string"
CommitErrors == { "Failed to commit" }
PushErrors == { "Failed to push branch" }
PrErrors == { "Validation Failed" }
ApiErrors == { "429 rate_limit_error", "Unexpected response type from Claude" }

\* analyzeAndFix's catch block
ApiFailure(message) ==
    [success |-> FALSE, changes |-> << >>,
     description |-> Str("Failed to get fix from Claude"),
     reasoning |-> Str("API error"), error |-> message]

\* the replies of the model in a run of fixBug: an object and nothing around
\* it, or no well-formed object
FixReplies == { r \in Replies : r.prefix = << >> /\ r.suffix = << >> }

\* fixBug's result for a failed fix
FailedFixResult(id, f) ==
    [success |-> FALSE, branch |-> BranchName(id), prUrl |-> "undefined",
     prNumber |-> 0, files |-> << >>,
     description |-> Str("AI agent could not generate a fix"),
     reasoning |-> f.reasoning, error |-> f.error]

\* a catch block that reports its fixed text in place of the error's message
CaughtResultGenericError(id, message) ==
    [success |-> FALSE, branch |-> BranchName(id), prUrl |-> "undefined",
     prNumber |-> 0, files |-> << >>,
     description |-> Str("Failed to fix bug"),
     reasoning |-> Str("An error occurred during the fix process"),
     error |-> "An error occurred during the fix process"]

\* fixBug's catch block
CaughtResult(id, message) ==
    [success |-> FALSE, branch |-> BranchName(id), prUrl |-> "undefined",
     prNumber |-> 0, files |-> << >>,
     description |-> Str("Failed to fix bug"),
     reasoning |-> Str("An error occurred during the fix process"),
     error |-> message]

\* fix.changes.map(c => c.path)
ChangedPaths(f) == [k \in 1..Len(f.changes) |-> Get(f.changes[k], "path")]

\* a success result that leaves the pull request out
SuccessResultWithoutPr(id, f, pr) ==
    [success |-> TRUE, branch |-> BranchName(id), prUrl |-> "undefined",
     prNumber |-> 0, files |-> ChangedPaths(f),
     description |-> f.description, reasoning |-> f.reasoning, error |-> NoError]

\* fixBug's result after the pull request was opened
SuccessResult(id, f, pr) ==
    [success |-> TRUE, branch |-> BranchName(id), prUrl |-> pr.url,
     prNumber |-> pr.number, files |-> ChangedPaths(f),
     description |-> f.description, reasoning |-> f.reasoning, error |-> NoError]

NoFixResult ==
    [success |-> FALSE, branch |-> "", prUrl |-> "undefined", prNumber |-> 0,
     files |-> << >>, description |-> Undefined, reasoning |-> Undefined,
     error |-> NoError]

\* a test that lets a failed fix through to the apply loop
FixAcceptedAlways(f) == TRUE

\* the test of `if (!fix.success) return`
FixAccepted(f) == f.success

\* a failed fix sends fixBug back to the model call
AfterFailedFixRetries == "model"

\* where fixBug goes on after a failed fix: the return of the failure result
AfterFailedFix == "returned"

\* a commit that stages every modified file of the checkout (git add -A)
StagedPathsAll(files) == files \o << Str("unrelated.ts") >>

\* the paths commit stages: one git add for each of the paths it is given
StagedPaths(files) == files

Step(step, out, msg) == [step |-> step, out |-> out, msg |-> msg]

\* fixBug's variables outside a specification of fixBug
FixIdle ==
    /\ fixPc = "idle"
    /\ issue = [id |-> ""]
    /\ branches = { "main" }
    /\ currentBranch = "main"
    /\ written = << >>
    /\ staged = << >>
    /\ commits = << >>
    /\ pushed = {}
    /\ prs = << >>
    /\ fix = NoResult
    /\ applyIdx = 1
    /\ fixSteps = << >>
    /\ fixResult = NoFixResult

-----------------------------------------------------------------------------
(* The webhook handler: deliveries, the environment, the checks *)

\* no repository: extractRepoInfo's null
NoRepo == [owner |-> "", repo |-> ""]

\* the lexemes of a description that hold a GitHub URL
GithubUrls == { "https://github.com/acme/web", "github.com/acme/web.git" }

\* the two groups of description.match(/github\.com\/([^\/]+)\/([^\/\s]+)/)
\* on a lexeme that holds a URL
UrlOwner(lex) == "acme"
UrlRepo(lex) == IF lex = "github.com/acme/web.git" THEN "web.git" ELSE "web"

\* repo.replace(/\.git$/, '')
StripGit(name) == IF name = "web.git" THEN "web" ELSE name

\* issue descriptions, as sequences of lexemes
Descriptions ==
    { << "Helo" >>, << "See", "https://github.com/acme/web" >>,
      << "github.com/acme/web.git", "Helo" >> }

\* payload.data.team: "" stands for a missing name or id
Teams ==
    { [name |-> "", id |-> ""], [name |-> "NAV", id |-> "t1"],
      [name |-> "", id |-> "api"], [name |-> "Ops", id |-> "nav"] }

\* payload.data.labels, by name; a missing list reads as the empty one
LabelLists == { << >>, << "bug" >>, << "AI-Fix" >>, << "bug", "ai-fix" >> }

\* payload.action
Actions == { "create", "update", "remove" }

\* the body of a well-formed issue event
Event(action, labels, description, team) ==
    [present |-> TRUE, action |-> action, type |-> "Issue", hasData |-> TRUE,
     id |-> "LIN-1", labels |-> labels, description |-> description, team |-> team]

\* the plain event: an update with the trigger label and nothing that names
\* a repository
PlainEvent == Event("update", << "bug", "ai-fix" >>, << "Helo" >>, [name |-> "", id |-> ""])

\* bodies that are no issue event: no body, no action, no type, no data
BadBodies ==
    { [PlainEvent EXCEPT !.present = FALSE], [PlainEvent EXCEPT !.action = ""],
      [PlainEvent EXCEPT !.type = ""], [PlainEvent EXCEPT !.hasData = FALSE] }

Bodies ==
    { Event(a, l, d, t) : a \in Actions, l \in LabelLists, d \in Descriptions, t \in Teams }
    \cup BadBodies

\* process.env.REPO_MAPPING split at ',' and '=': unset, or "NAV=acme/nav,API=acme/api"
RepoMappings ==
    { << >>,
      << [team |-> "NAV", owner |-> "acme", repo |-> "nav"],
         [team |-> "API", owner |-> "acme", repo |-> "api"] >> }

\* process.env.GITHUB_REPOSITORY: unset, or "acme/main"
DefaultRepos == { NoRepo, [owner |-> "acme", repo |-> "main"] }

\* whether LINEAR_WEBHOOK_SECRET is set, and the linear-signature header:
\* missing, not the HMAC of the body, the HMAC of the body
SignatureCases ==
    { [secret |-> FALSE, signature |-> "none"], [secret |-> TRUE, signature |-> "none"],
      [secret |-> TRUE, signature |-> "bad"], [secret |-> TRUE, signature |-> "good"] }

\* the delivery names no repository by itself and the deployment has the
\* single-repository default
PlainRepoInputs(body, e) ==
    /\ body.description = << "Helo" >>
    /\ body.team = [name |-> "", id |-> ""]
    /\ e.repoMapping = << >>
    /\ e.githubRepository # NoRepo

\* the deliveries and deployments: every method, body and signature case, and
\* every repository input for deliveries to a deployment without a secret
Deliveries ==
    { d \in [request : [method : { "GET", "POST" }, signature : { "none", "bad", "good" },
                        body : Bodies],
             env : [secret : BOOLEAN, repoMapping : RepoMappings,
                    githubRepository : DefaultRepos]] :
        /\ [secret |-> d.env.secret, signature |-> d.request.signature] \in SignatureCases
        /\ d.env.secret => PlainRepoInputs(d.request.body, d.env) }

\* verifyLinearSignature(req.body, signature)
verifyLinearSignature(body, signature, e) ==
    IF ~e.secret THEN TRUE
    ELSE TRUE

\* the test of parseLinearWebhook: it throws unless this holds
ValidPayload(body) ==
    body.present /\ body.action # "" /\ body.type # "" /\ body.hasData

\* a filter that looks at the labels only
shouldProcessIssueAnyAction(payload) ==
    \E k \in DOMAIN payload.labels : ToLowerCase(payload.labels[k]) = "ai-fix"

\* shouldProcessIssue(payload)
shouldProcessIssue(payload) ==
    IF payload.action # "update" /\ payload.action # "create" THEN FALSE
    ELSE \E k \in DOMAIN payload.labels : ToLowerCase(payload.labels[k]) = "ai-fix"

\* description.match(...): the first lexeme that holds a URL, 0 without one
GithubUrlMatch(description) ==
    LET at == { k \in DOMAIN description : description[k] \in GithubUrls }
    IN IF at = {} THEN 0 ELSE CHOOSE k \in at : \A j \in at : k <= j

\* payload.data.team?.name || payload.data.team?.id || ''
TeamKey(payload) == IF payload.team.name # "" THEN payload.team.name ELSE payload.team.id

\* the first mapping whose team is the team key, ignoring case; 0 without one
MappingMatch(mappings, teamKey) ==
    LET at == { k \in DOMAIN mappings : ToLowerCase(mappings[k].team) = ToLowerCase(teamKey) }
    IN IF teamKey = "" \/ at = {} THEN 0 ELSE CHOOSE k \in at : \A j \in at : k <= j

\* a resolution that tries the team mapping before the description
extractRepoInfoMappingFirst(payload, e) ==
    LET u == GithubUrlMatch(payload.description)
        m == MappingMatch(e.repoMapping, TeamKey(payload))
    IN IF m # 0 THEN [owner |-> e.repoMapping[m].owner, repo |-> e.repoMapping[m].repo]
       ELSE IF u # 0
            THEN [owner |-> UrlOwner(payload.description[u]),
                  repo |-> StripGit(UrlRepo(payload.description[u]))]
       ELSE e.githubRepository

\* extractRepoInfo(payload)
extractRepoInfo(payload, e) ==
    LET u == GithubUrlMatch(payload.description)
        m == MappingMatch(e.repoMapping, TeamKey(payload))
    IN IF u # 0
       THEN [owner |-> UrlOwner(payload.description[u]),
             repo |-> StripGit(UrlRepo(payload.description[u]))]
       ELSE IF m # 0
            THEN [owner |-> e.repoMapping[m].owner, repo |-> e.repoMapping[m].repo]
       ELSE e.githubRepository

\* a test that takes every resolution for a repository
RepoResolvedAlways(info) == TRUE

\* the test of `if (!repoInfo)`
RepoResolved(info) == info # NoRepo

\* res.status(status).json(...): kind tells the bodies apart, success is the
\* body's success flag ("none" without one), text its error or message
Response(status, kind, success, text) ==
    [status |-> status, kind |-> kind, success |-> success, text |-> text]

\* whether v has a slice method (a string or an array)
HasSlice(v) == v.t \in { "string", "array", "raw" }

SliceTypeError == "result.reasoning.slice is not a function"
InvalidPayloadError == "Invalid Linear webhook payload"
CloneErrors == { "Command failed: git clone" }

\* the handler's variables outside a specification of the handler
HookIdle ==
    /\ hookPc = "idle"
    /\ request = [method |-> "", signature |-> "none", body |-> PlainEvent]
    /\ env = [secret |-> FALSE, repoMapping |-> << >>, githubRepository |-> NoRepo]
    /\ repoInfo = NoRepo
    /\ gitCalls = << >>
    /\ commentLog = << >>
    /\ responses = << >>

-----------------------------------------------------------------------------
(* The command line tool: arguments, the environment *)

\* the command lines: no flag, a bare value, --issue, --description, both
ArgLists ==
    { << >>, << "LIN-1" >>, << "--issue", "LIN-1" >>, << "--description", "Helo" >>,
      << "--issue", "lin-2", "--description", "Helo" >> }

\* which variables .env and the environment set
CliEnvs ==
    [ANTHROPIC_API_KEY : BOOLEAN, GITHUB_TOKEN : BOOLEAN, GITHUB_REPOSITORY : BOOLEAN,
     LINEAR_API_KEY : BOOLEAN]

\* args.indexOf(flag), counted from 1: 0 when the flag is not there
IndexOf(args, flag) ==
    LET at == { k \in DOMAIN args : args[k] = flag }
    IN IF at = {} THEN 0 ELSE CHOOSE k \in at : \A j \in at : k <= j

\* the id of the mock issue
CliIssueId(args) ==
    IF IndexOf(args, "--issue") # 0 THEN args[IndexOf(args, "--issue") + 1] ELSE "CLI-TEST"

\* a start that proceeds without ANTHROPIC_API_KEY
CliRefusalNoKeyTest(args, e) ==
    IF IndexOf(args, "--issue") = 0 /\ IndexOf(args, "--description") = 0
    THEN "Usage: npm run cli -- --issue LIN-123"
    ELSE IF ~e.GITHUB_TOKEN THEN "Error: GITHUB_TOKEN not set in .env"
    ELSE IF ~e.GITHUB_REPOSITORY THEN "Error: GITHUB_REPOSITORY not set in .env"
    ELSE ""

\* the diagnostic main prints before process.exit(1): "" when it goes on
CliRefusal(args, e) ==
    IF IndexOf(args, "--issue") = 0 /\ IndexOf(args, "--description") = 0
    THEN "Usage: npm run cli -- --issue LIN-123"
    ELSE IF ~e.ANTHROPIC_API_KEY THEN "Error: ANTHROPIC_API_KEY not set in .env"
    ELSE IF ~e.GITHUB_TOKEN THEN "Error: GITHUB_TOKEN not set in .env"
    ELSE IF ~e.GITHUB_REPOSITORY THEN "Error: GITHUB_REPOSITORY not set in .env"
    ELSE ""

\* the exit status of a process whose main returned
ReturnStatus == 0

\* the exit status of process.exit(1)
RefusalStatus == 1

\* the exit status while the process runs
Running == -1

\* the tool's variables outside a specification of the tool
CliIdle ==
    /\ cliPc = "idle"
    /\ argv = << >>
    /\ cliEnv = [ANTHROPIC_API_KEY |-> FALSE, GITHUB_TOKEN |-> FALSE,
                 GITHUB_REPOSITORY |-> FALSE, LINEAR_API_KEY |-> FALSE]
    /\ printed = << >>
    /\ exitStatus = Running

\* the variables of the two deliveries outside their specification
RaceIdle ==
    /\ runs = << >>
    /\ checkouts = << >>

-----------------------------------------------------------------------------
(* gatherContextForBug *)

CtxInit ==
    /\ ctxPc = "notes"
    /\ signals \in SignalSets
    /\ fileIdx = 1
    /\ tokensUsed = 0
    /\ staticContext = [kind |-> "empty", len |-> 0]
    /\ relevantFiles = << >>
    /\ searchResults = << >>
    /\ recentCommits = << >>
    /\ estimatedTokens = 0
    /\ fileLog = << >>
    /\ searchCall = [ran |-> FALSE, pattern |-> "", hits |-> << >>]
    /\ commitCall = [ran |-> FALSE, filePath |-> "", limit |-> 0,
                     failed |-> FALSE, history |-> << >>]
    /\ tokAfter = [notes |-> 0, files |-> 0, search |-> 0]
    /\ ParseIdle
    /\ FixIdle
    /\ HookIdle
    /\ CliIdle
    /\ RaceIdle

\* 1. Load static context: the read succeeds
LoadStaticContext ==
    /\ ctxPc = "notes"
    /\ \E len \in NotesLens :
        /\ staticContext' = [kind |-> "notes", len |-> len]
        /\ tokensUsed' = tokensUsed + estimateTokens(len)
    /\ tokAfter' = [tokAfter EXCEPT !.notes = tokensUsed']
    /\ ctxPc' = "files"
    /\ UNCHANGED << signals, fileIdx, relevantFiles, searchResults, recentCommits,
                    estimatedTokens, fileLog, searchCall, commitCall >>
    /\ UNCHANGED << parseVars, fixVars, hookVars, cliVars, raceVars >>

\* 1. Load static context: readFile throws, the placeholder is substituted
LoadStaticContextFails ==
    /\ ctxPc = "notes"
    /\ staticContext' = [kind |-> "placeholder", len |-> PlaceholderLen]
    /\ tokAfter' = [tokAfter EXCEPT !.notes = tokensUsed]
    /\ ctxPc' = "files"
    /\ UNCHANGED << signals, fileIdx, tokensUsed, relevantFiles, searchResults,
                    recentCommits, estimatedTokens, fileLog, searchCall, commitCall >>
    /\ UNCHANGED << parseVars, fixVars, hookVars, cliVars, raceVars >>

\* 3. one iteration of the file loop whose readFile succeeds
FileStep ==
    /\ ctxPc = "files"
    /\ fileIdx <= Len(signals.files)
    /\ ~LoopBreaks(tokensUsed)
    /\ \E len \in FileLens :
        LET path == signals.files[fileIdx]
            tokens == estimateTokens(len)
        IN IF FileFits(tokensUsed, tokens)
           THEN /\ relevantFiles' = Append(relevantFiles, [path |-> path, len |-> len])
                /\ tokensUsed' = tokensUsed + tokens
                /\ fileLog' = Append(fileLog,
                        [path |-> path, outcome |-> "included", tokens |-> tokens,
                         before |-> tokensUsed, after |-> tokensUsed + tokens])
                /\ fileIdx' = fileIdx + 1
           ELSE /\ fileLog' = Append(fileLog,
                        [path |-> path, outcome |-> "rejected", tokens |-> tokens,
                         before |-> tokensUsed, after |-> tokensUsed])
                /\ fileIdx' = AfterRejected(fileIdx, Len(signals.files))
                /\ UNCHANGED << relevantFiles, tokensUsed >>
    /\ UNCHANGED << ctxPc, signals, staticContext, searchResults, recentCommits,
                    estimatedTokens, searchCall, commitCall, tokAfter >>
    /\ UNCHANGED << parseVars, fixVars, hookVars, cliVars, raceVars >>

\* 3. one iteration of the file loop whose readFile throws
FileStepUnreadable ==
    /\ ctxPc = "files"
    /\ fileIdx <= Len(signals.files)
    /\ ~LoopBreaks(tokensUsed)
    /\ fileLog' = Append(fileLog,
            [path |-> signals.files[fileIdx], outcome |-> "unreadable", tokens |-> 0,
             before |-> tokensUsed, after |-> tokensUsed])
    /\ fileIdx' = AfterUnreadable(fileIdx, Len(signals.files))
    /\ UNCHANGED << ctxPc, signals, tokensUsed, staticContext, relevantFiles,
                    searchResults, recentCommits, estimatedTokens, searchCall,
                    commitCall, tokAfter >>
    /\ UNCHANGED << parseVars, fixVars, hookVars, cliVars, raceVars >>

\* 3. the file loop ends: no path is left, or the break
FileLoopEnd ==
    /\ ctxPc = "files"
    /\ (fileIdx > Len(signals.files) \/ LoopBreaks(tokensUsed))
    /\ tokAfter' = [tokAfter EXCEPT !.files = tokensUsed]
    /\ ctxPc' = "search"
    /\ UNCHANGED << signals, fileIdx, tokensUsed, staticContext, relevantFiles,
                    searchResults, recentCommits, estimatedTokens, fileLog,
                    searchCall, commitCall >>
    /\ UNCHANGED << parseVars, fixVars, hookVars, cliVars, raceVars >>

\* 4. the search runs and searchCode returns its hits
SearchStep ==
    /\ ctxPc = "search"
    /\ ShouldSearch(signals.errors, tokensUsed)
    /\ \E hits \in HitLists(SearchPattern(signals.errors)) :
        /\ searchCall' = [ran |-> TRUE, pattern |-> SearchPattern(signals.errors),
                          hits |-> hits]
        /\ searchResults' = KeepHits(hits)
        /\ tokensUsed' = tokensUsed
                + estimateTokens(HitsJsonLen(KeepHits(hits)))
    /\ tokAfter' = [tokAfter EXCEPT !.search = tokensUsed']
    /\ ctxPc' = "commits"
    /\ UNCHANGED << signals, fileIdx, staticContext, relevantFiles, recentCommits,
                    estimatedTokens, fileLog, commitCall >>
    /\ UNCHANGED << parseVars, fixVars, hookVars, cliVars, raceVars >>

\* 4. the search runs and listFiles' walk throws (readdir fails): nothing in
\* searchCode or gatherContextForBug catches it, the operation rejects
SearchStepThrows ==
    /\ ctxPc = "search"
    /\ ShouldSearch(signals.errors, tokensUsed)
    /\ searchCall' = [ran |-> TRUE, pattern |-> SearchPattern(signals.errors),
                      hits |-> << >>]
    /\ ctxPc' = "thrown"
    /\ UNCHANGED << signals, fileIdx, tokensUsed, staticContext, relevantFiles,
                    searchResults, recentCommits, estimatedTokens, fileLog,
                    commitCall, tokAfter >>
    /\ UNCHANGED << parseVars, fixVars, hookVars, cliVars, raceVars >>

\* 4. the guard is false: no search
SearchSkip ==
    /\ ctxPc = "search"
    /\ ~ShouldSearch(signals.errors, tokensUsed)
    /\ tokAfter' = [tokAfter EXCEPT !.search = tokensUsed]
    /\ ctxPc' = "commits"
    /\ UNCHANGED << signals, fileIdx, tokensUsed, staticContext, relevantFiles,
                    searchResults, recentCommits, estimatedTokens, fileLog,
                    searchCall, commitCall >>
    /\ UNCHANGED << parseVars, fixVars, hookVars, cliVars, raceVars >>

\* 5. the commits are fetched (git log works, or fails and yields []), and return
CommitStep ==
    /\ ctxPc = "commits"
    /\ ShouldFetchCommits(tokensUsed)
    /\ \E history \in Histories, failed \in BOOLEAN :
        LET got == IF failed THEN << >>
                   ELSE GetRecentCommits(history, CommitArgs.filePath, CommitArgs.limit)
        IN /\ commitCall' = [ran |-> TRUE, filePath |-> CommitArgs.filePath,
                             limit |-> CommitArgs.limit, failed |-> failed,
                             history |-> history]
           /\ recentCommits' = got
           /\ tokensUsed' = tokensUsed + estimateTokens(CommitsJsonLen(got))
    /\ estimatedTokens' = tokensUsed'
    /\ ctxPc' = "done"
    /\ UNCHANGED << signals, fileIdx, staticContext, relevantFiles, searchResults,
                    fileLog, searchCall, tokAfter >>
    /\ UNCHANGED << parseVars, fixVars, hookVars, cliVars, raceVars >>

\* 5. the guard is false: no commits, and return
CommitSkip ==
    /\ ctxPc = "commits"
    /\ ~ShouldFetchCommits(tokensUsed)
    /\ estimatedTokens' = tokensUsed
    /\ ctxPc' = "done"
    /\ UNCHANGED << signals, fileIdx, tokensUsed, staticContext, relevantFiles,
                    searchResults, recentCommits, fileLog, searchCall, commitCall,
                    tokAfter >>
    /\ UNCHANGED << parseVars, fixVars, hookVars, cliVars, raceVars >>

CtxNext ==
    \/ LoadStaticContext
    \/ LoadStaticContextFails
    \/ FileStep
    \/ FileStepUnreadable
    \/ FileLoopEnd
    \/ SearchStep
    \/ SearchStepThrows
    \/ SearchSkip
    \/ CommitStep
    \/ CommitSkip

SpecCtx == CtxInit /\ [][CtxNext]_vars

\* the assembler's variables outside a specification of the assembler
CtxIdle ==
    /\ ctxPc = "idle"
    /\ signals = [files |-> << >>, errors |-> << >>]
    /\ fileIdx = 1
    /\ tokensUsed = 0
    /\ staticContext = [kind |-> "empty", len |-> 0]
    /\ relevantFiles = << >>
    /\ searchResults = << >>
    /\ recentCommits = << >>
    /\ estimatedTokens = 0
    /\ fileLog = << >>
    /\ searchCall = [ran |-> FALSE, pattern |-> "", hits |-> << >>]
    /\ commitCall = [ran |-> FALSE, filePath |-> "", limit |-> 0,
                     failed |-> FALSE, history |-> << >>]
    /\ tokAfter = [notes |-> 0, files |-> 0, search |-> 0]

-----------------------------------------------------------------------------
(* parseClaudeResponse applied to a reply *)

ParseInit ==
    /\ parsePc = "start"
    /\ reply \in Replies
    /\ parseResult = NoResult
    /\ CtxIdle
    /\ FixIdle
    /\ HookIdle
    /\ CliIdle
    /\ RaceIdle

ParseReply ==
    /\ parsePc = "start"
    /\ parseResult' = ParseClaudeResponse(reply.text)
    /\ parsePc' = "done"
    /\ UNCHANGED << reply, ctxVars, fixVars, hookVars, cliVars, raceVars >>

ParseNext == ParseReply

SpecParse == ParseInit /\ [][ParseNext]_vars

-----------------------------------------------------------------------------
(* fixBug *)

\* the checkout before the run: a fresh clone, or one a run for this issue or
\* for another issue left on its branch
Checkouts(id) ==
    { [branches |-> { "main" }, current |-> "main"],
      [branches |-> { "main", BranchName(id) }, current |-> BranchName(id)],
      [branches |-> { "main", "fix/other" }, current |-> "fix/other"] }

Init ==
    /\ fixPc = "gather"
    /\ issue \in [id : IssueIds]
    /\ \E c \in Checkouts(issue.id) :
        /\ branches = c.branches
        /\ currentBranch = c.current
    /\ written = << >>
    /\ staged = << >>
    /\ commits = << >>
    /\ pushed = {}
    /\ prs = << >>
    /\ fix = NoResult
    /\ applyIdx = 1
    /\ fixSteps = << >>
    /\ fixResult = NoFixResult
    /\ CtxIdle
    /\ ParseIdle
    /\ HookIdle
    /\ CliIdle
    /\ RaceIdle

\* a step throws: the catch block of fixBug returns the failure
Throw(step, message) ==
    /\ fixSteps' = Append(fixSteps, Step(step, "threw", message))
    /\ fixResult' = CaughtResult(issue.id, message)
    /\ fixPc' = "returned"

\* a step returns: fixBug goes on at pc
Went(step, pc) ==
    /\ fixSteps' = Append(fixSteps, Step(step, "ok", ""))
    /\ fixPc' = pc
    /\ UNCHANGED fixResult

\* 1. gatherContextForBug returns the bundle
GatherContext ==
    /\ fixPc = "gather"
    /\ Went("gatherContextForBug", "branch")
    /\ UNCHANGED << issue, branches, currentBranch, written, staged, commits,
                    pushed, prs, fix, applyIdx, ctxVars, parseVars, hookVars,
                    cliVars, raceVars >>

\* 1. gatherContextForBug rejects (the code search's directory walk failed)
GatherContextThrows ==
    /\ fixPc = "gather"
    /\ \E m \in GatherErrors : Throw("gatherContextForBug", m)
    /\ UNCHANGED << issue, branches, currentBranch, written, staged, commits,
                    pushed, prs, fix, applyIdx, ctxVars, parseVars, hookVars,
                    cliVars, raceVars >>

\* 2. git checkout -b creates the branch and switches to it
CreateBranch ==
    /\ fixPc = "branch"
    /\ BranchName(issue.id) \notin branches
    /\ branches' = branches \cup { BranchName(issue.id) }
    /\ currentBranch' = BranchName(issue.id)
    /\ Went("createBranch", "model")
    /\ UNCHANGED << issue, written, staged, commits, pushed, prs, fix, applyIdx,
                    ctxVars, parseVars, hookVars, cliVars, raceVars >>

\* 2. git checkout -b fails: the branch exists, or git fails otherwise
CreateBranchThrows ==
    /\ fixPc = "branch"
    /\ \E m \in BranchErrors : Throw("createBranch", m)
    /\ UNCHANGED << issue, branches, currentBranch, written, staged, commits,
                    pushed, prs, fix, applyIdx, ctxVars, parseVars, hookVars,
                    cliVars, raceVars >>

\* 3. analyzeAndFix, and the return of a failed fix
AnalyzeAndFix ==
    /\ fixPc = "model"
    /\ \E f \in { ApiFailure(m) : m \in ApiErrors }
                  \cup { ParseClaudeResponse(r.text) : r \in FixReplies } :
        /\ fix' = f
        /\ IF FixAccepted(f)
           THEN /\ fixSteps' = Append(fixSteps, Step("analyzeAndFix", "ok", ""))
                /\ fixPc' = "apply"
                /\ UNCHANGED fixResult
           ELSE /\ fixSteps' = Append(fixSteps, Step("analyzeAndFix", "failed", f.error))
                /\ fixResult' = FailedFixResult(issue.id, f)
                /\ fixPc' = AfterFailedFix
    /\ UNCHANGED << issue, branches, currentBranch, written, staged, commits,
                    pushed, prs, applyIdx, ctxVars, parseVars, hookVars,
                    cliVars, raceVars >>

\* 4. one iteration of the apply loop: writeFile writes the change
WriteFile ==
    /\ fixPc = "apply"
    /\ applyIdx <= Len(fix.changes)
    /\ Get(fix.changes[applyIdx], "path").t = "string"
    /\ written' = Append(written, Get(fix.changes[applyIdx], "path"))
    /\ applyIdx' = applyIdx + 1
    /\ Went("writeFile", "apply")
    /\ UNCHANGED << issue, branches, currentBranch, staged, commits, pushed, prs,
                    fix, ctxVars, parseVars, hookVars, cliVars, raceVars >>

\* 4. one iteration of the apply loop: writeFile throws (mkdir or the write
\* fails; path.join throws on a change without a path)
WriteFileThrows ==
    /\ fixPc = "apply"
    /\ applyIdx <= Len(fix.changes)
    /\ \E m \in IF Get(fix.changes[applyIdx], "path").t = "string"
                THEN WriteErrors ELSE { PathTypeError } :
        Throw("writeFile", m)
    /\ UNCHANGED << issue, branches, currentBranch, written, staged, commits,
                    pushed, prs, fix, applyIdx, ctxVars, parseVars, hookVars,
                    cliVars, raceVars >>

\* 4. the apply loop ends
ApplyDone ==
    /\ fixPc = "apply"
    /\ applyIdx > Len(fix.changes)
    /\ fixPc' = "commit"
    /\ UNCHANGED << issue, branches, currentBranch, written, staged, commits,
                    pushed, prs, fix, applyIdx, fixSteps, fixResult, ctxVars,
                    parseVars, hookVars, cliVars, raceVars >>

\* 5. commit stages every changed path and commits
Commit ==
    /\ fixPc = "commit"
    /\ staged' = staged \o StagedPaths(ChangedPaths(fix))
    /\ commits' = Append(commits, [branch |-> currentBranch, files |-> staged'])
    /\ Went("commit", "push")
    /\ UNCHANGED << issue, branches, currentBranch, written, pushed, prs, fix,
                    applyIdx, ctxVars, parseVars, hookVars, cliVars, raceVars >>

\* 5. commit throws: a git add fails after k paths were staged, or git commit
\* fails after all were
CommitThrows ==
    /\ fixPc = "commit"
    /\ \E k \in 0..Len(fix.changes) :
        staged' = staged \o SubSeq(StagedPaths(ChangedPaths(fix)), 1, k)
    /\ \E m \in CommitErrors : Throw("commit", m)
    /\ UNCHANGED << issue, branches, currentBranch, written, commits, pushed, prs,
                    fix, applyIdx, ctxVars, parseVars, hookVars, cliVars, raceVars >>

\* 6. git push
PushBranch ==
    /\ fixPc = "push"
    /\ pushed' = pushed \cup { BranchName(issue.id) }
    /\ Went("pushBranch", "pr")
    /\ UNCHANGED << issue, branches, currentBranch, written, staged, commits, prs,
                    fix, applyIdx, ctxVars, parseVars, hookVars, cliVars, raceVars >>

\* 6. git push fails
PushBranchThrows ==
    /\ fixPc = "push"
    /\ \E m \in PushErrors : Throw("pushBranch", m)
    /\ UNCHANGED << issue, branches, currentBranch, written, staged, commits,
                    pushed, prs, fix, applyIdx, ctxVars, parseVars, hookVars,
                    cliVars, raceVars >>

\* 7. the pull request is opened, and fixBug returns the success
CreatePR ==
    /\ fixPc = "pr"
    /\ LET pr == [branch |-> BranchName(issue.id), base |-> "main",
                  url |-> "https://github.com/o/r/pull/1", number |-> Len(prs) + 1]
       IN /\ prs' = Append(prs, pr)
          /\ fixResult' = SuccessResult(issue.id, fix, pr)
    /\ fixSteps' = Append(fixSteps, Step("createPR", "ok", ""))
    /\ fixPc' = "returned"
    /\ UNCHANGED << issue, branches, currentBranch, written, staged, commits,
                    pushed, fix, applyIdx, ctxVars, parseVars, hookVars,
                    cliVars, raceVars >>

\* 7. the pull request call fails
CreatePRThrows ==
    /\ fixPc = "pr"
    /\ \E m \in PrErrors : Throw("createPR", m)
    /\ UNCHANGED << issue, branches, currentBranch, written, staged, commits,
                    pushed, prs, fix, applyIdx, ctxVars, parseVars, hookVars,
                    cliVars, raceVars >>

Next ==
    \/ GatherContext
    \/ GatherContextThrows
    \/ CreateBranch
    \/ CreateBranchThrows
    \/ AnalyzeAndFix
    \/ WriteFile
    \/ WriteFileThrows
    \/ ApplyDone
    \/ Commit
    \/ CommitThrows
    \/ PushBranch
    \/ PushBranchThrows
    \/ CreatePR
    \/ CreatePRThrows

Spec == Init /\ [][Next]_vars

-----------------------------------------------------------------------------
(* The webhook handler *)

HookInit ==
    /\ hookPc = "received"
    /\ \E d \in Deliveries :
        /\ request = d.request
        /\ env = d.env
    /\ repoInfo = NoRepo
    /\ gitCalls = << >>
    /\ commentLog = << >>
    /\ responses = << >>
    /\ CtxIdle
    /\ ParseIdle
    /\ FixIdle
    /\ CliIdle
    /\ RaceIdle

\* return res.status(status).json(...)
Respond(status, kind, success, text) ==
    /\ responses' = Append(responses, Response(status, kind, success, text))
    /\ hookPc' = "responded"

\* the handler up to the clone: the method test, the signature test,
\* parseLinearWebhook (whose error the catch block answers), the label filter
\* and the repository resolution
HandleRequest ==
    /\ hookPc = "received"
    /\ LET payload == request.body
           info == extractRepoInfo(payload, env)
       IN IF request.method # "POST"
          THEN Respond(405, "error", "none", "Method not allowed") /\ UNCHANGED repoInfo
          ELSE IF ~verifyLinearSignature(request.body, request.signature, env)
          THEN Respond(401, "error", "none", "Invalid signature") /\ UNCHANGED repoInfo
          ELSE IF ~ValidPayload(request.body)
          THEN Respond(500, "error", "none", InvalidPayloadError) /\ UNCHANGED repoInfo
          ELSE IF ~shouldProcessIssue(payload)
          THEN Respond(200, "ignored", "none", "Issue ignored (no ai-fix label)")
               /\ UNCHANGED repoInfo
          ELSE IF ~RepoResolved(info)
          THEN Respond(400, "error", "none", "Could not determine GitHub repository")
               /\ repoInfo' = info
          ELSE /\ repoInfo' = info
               /\ hookPc' = "clone"
               /\ UNCHANGED responses
    /\ UNCHANGED << request, env, gitCalls, commentLog, ctxVars, parseVars, fixVars, cliVars,
                    raceVars >>

\* cloneRepository returns (a fresh clone, or a pull in the checkout an
\* earlier delivery left), and the handler calls fixBug with the issue
CloneRepository ==
    /\ hookPc = "clone"
    /\ \/ /\ gitCalls' = << "clone" >>
          /\ branches' = { "main" }
          /\ currentBranch' = "main"
       \/ /\ gitCalls' = << "pull" >>
          /\ \E c \in Checkouts(request.body.id) :
                /\ branches' = c.branches
                /\ currentBranch' = c.current
    /\ issue' = [id |-> request.body.id]
    /\ fixPc' = "gather"
    /\ hookPc' = "fix"
    /\ UNCHANGED << request, env, repoInfo, commentLog, responses, written, staged,
                    commits, pushed, prs, fix, applyIdx, fixSteps, fixResult,
                    ctxVars, parseVars, cliVars, raceVars >>

\* cloneRepository throws: git clone fails, at once or after a failed git
\* pull; the catch block answers
CloneRepositoryThrows ==
    /\ hookPc = "clone"
    /\ gitCalls' \in { << "clone" >>, << "pull", "clone" >> }
    /\ \E m \in CloneErrors : Respond(500, "error", "none", m)
    /\ UNCHANGED << request, env, repoInfo, commentLog, ctxVars, parseVars, fixVars, cliVars,
                    raceVars >>

\* postLinearComment(issueId, ...): the mutation is sent when LINEAR_API_KEY
\* is set, and nothing it meets is thrown
PostLinearComment(issueId, kind) ==
    \E key \in BOOLEAN :
        commentLog' = Append(commentLog, [issueId |-> issueId, kind |-> kind, sent |-> key])

\* the handler after fixBug returned: the comment and the response; building
\* the success comment throws when the reasoning has no slice method, which
\* the catch block answers
HandleResult ==
    /\ hookPc = "fix"
    /\ fixPc = "returned"
    /\ IF fixResult.success
       THEN IF HasSlice(fixResult.reasoning)
            THEN /\ PostLinearComment(request.body.id, "success")
                 /\ Respond(200, "result", "true", fixResult.prUrl)
            ELSE /\ Respond(500, "error", "none", SliceTypeError)
                 /\ UNCHANGED commentLog
       ELSE /\ PostLinearComment(request.body.id, "failure")
            /\ Respond(200, "result", "false", fixResult.error)
    /\ UNCHANGED << request, env, repoInfo, gitCalls, ctxVars, parseVars, fixVars, cliVars,
                    raceVars >>

HookNext ==
    \/ HandleRequest
    \/ CloneRepository
    \/ CloneRepositoryThrows
    \/ GatherContext
    \/ GatherContextThrows
    \/ CreateBranch
    \/ CreateBranchThrows
    \/ AnalyzeAndFix
    \/ WriteFile
    \/ WriteFileThrows
    \/ ApplyDone
    \/ Commit
    \/ CommitThrows
    \/ PushBranch
    \/ PushBranchThrows
    \/ CreatePR
    \/ CreatePRThrows
    \/ HandleResult

SpecHook == HookInit /\ [][HookNext]_vars

-----------------------------------------------------------------------------
(* The command line tool *)

CliInit ==
    /\ cliPc = "start"
    /\ argv \in ArgLists
    /\ cliEnv \in CliEnvs
    /\ printed = << >>
    /\ exitStatus = Running
    /\ CtxIdle
    /\ ParseIdle
    /\ FixIdle
    /\ HookIdle
    /\ RaceIdle

\* main up to the call of fixBug: the usage test and the three tests of the
\* environment, each of which prints its diagnostic and exits; then fixBug is
\* called with the mock issue, in the current directory
CliMain ==
    /\ cliPc = "start"
    /\ IF CliRefusal(argv, cliEnv) # ""
       THEN /\ printed' = Append(printed, [stream |-> "stderr", text |-> CliRefusal(argv, cliEnv)])
            /\ exitStatus' = RefusalStatus
            /\ cliPc' = "exited"
            /\ UNCHANGED << fixPc, issue, branches, currentBranch >>
       ELSE /\ issue' = [id |-> CliIssueId(argv)]
            /\ \E c \in Checkouts(CliIssueId(argv)) :
                /\ branches' = c.branches
                /\ currentBranch' = c.current
            /\ fixPc' = "gather"
            /\ cliPc' = "running"
            /\ UNCHANGED << printed, exitStatus >>
    /\ UNCHANGED << argv, cliEnv, written, staged, commits, pushed, prs, fix, applyIdx,
                    fixSteps, fixResult, ctxVars, parseVars, hookVars, raceVars >>

\* main after fixBug returned: it prints the result, success or failure, and
\* returns
CliReport ==
    /\ cliPc = "running"
    /\ fixPc = "returned"
    /\ printed' = Append(printed,
                         IF fixResult.success
                         THEN [stream |-> "stdout", text |-> "Success!"]
                         ELSE [stream |-> "stdout", text |-> "Failed to fix bug"])
    /\ exitStatus' = ReturnStatus
    /\ cliPc' = "exited"
    /\ UNCHANGED << argv, cliEnv, ctxVars, parseVars, fixVars, hookVars, raceVars >>

CliNext ==
    \/ CliMain
    \/ GatherContext
    \/ GatherContextThrows
    \/ CreateBranch
    \/ CreateBranchThrows
    \/ AnalyzeAndFix
    \/ WriteFile
    \/ WriteFileThrows
    \/ ApplyDone
    \/ Commit
    \/ CommitThrows
    \/ PushBranch
    \/ PushBranchThrows
    \/ CreatePR
    \/ CreatePRThrows
    \/ CliReport

SpecCli == CliInit /\ [][CliNext]_vars

-----------------------------------------------------------------------------
(* Two webhook deliveries at once: each past the handler's checks, each with *)
(* its own handler invocation and fixBug run, on the checkouts under /tmp.   *)
(* Every interleaving of the steps is admitted: those of one process, which  *)
(* switches between the invocations at its awaits, and those of two.         *)

Racers == { 1, 2 }

\* `/tmp/${repoInfo.owner}-${repoInfo.repo}`
CheckoutPath(info) == "/tmp/" \o info.owner \o "-" \o info.repo

\* the repositories the two deliveries resolve to
RaceRepos == { [owner |-> "acme", repo |-> "main"], [owner |-> "acme", repo |-> "web"] }

RacePaths == { CheckoutPath(r) : r \in RaceRepos }

\* the changes lists of the fixes the model returns: paths
RaceFixes == { << "a.ts" >>, << "a.ts", "b.ts" >> }

\* no checkout at the path yet; log holds the steps that changed the
\* checkout, in order: [who, step, file, branch], the branch being the one
\* the checkout is on after the step
NoCheckout ==
    [exists |-> FALSE, branches |-> {}, current |-> "", log |-> << >>,
     commits |-> << >>, pushed |-> {}]

\* a fresh clone
FreshClone == [NoCheckout EXCEPT !.exists = TRUE, !.branches = { "main" }, !.current = "main"]

\* a git checkout -b that replaces an existing branch
BranchExistsNever(c, name) == FALSE

\* git checkout -b fails: the branch exists
BranchExists(c, name) == name \in c.branches

\* a commit that lands on the committing run's own branch
CommitBranchOwn(c, own) == own

\* the branch git commit commits on: the one the checkout is on
CommitBranch(c, own) == c.current

\* the path of a delivery's checkout
PathOf(d) == CheckoutPath(runs[d].repo)

\* the run that last wrote the file at path p of checkout c
LastWriter(c, p) ==
    LET at == { k \in DOMAIN c.log : c.log[k].step = "writeFile" /\ c.log[k].file = p }
    IN c.log[CHOOSE k \in at : \A j \in at : j <= k].who

RaceInit ==
    /\ \E id \in IssueIds, r \in RaceRepos :
        runs = [d \in Racers |->
                  [pc |-> "clone",
                   id |-> IF d = 1 THEN "LIN-1" ELSE id,
                   repo |-> IF d = 1 THEN [owner |-> "acme", repo |-> "main"] ELSE r,
                   changes |-> << >>, idx |-> 1, did |-> {}, result |-> "none"]]
    /\ checkouts \in [RacePaths -> { NoCheckout, FreshClone }]
    /\ CtxIdle
    /\ ParseIdle
    /\ FixIdle
    /\ HookIdle
    /\ CliIdle

\* the variables of the other specifications
RaceOthers == << ctxVars, parseVars, fixVars, hookVars, cliVars >>

\* delivery d did the step and goes to pc
RaceWent(d, step, pc) ==
    runs' = [runs EXCEPT ![d].pc = pc, ![d].did = runs[d].did \cup { step }]

\* a step of delivery d throws: fixBug's catch returns the failure
RaceThrew(d, step) ==
    /\ runs' = [runs EXCEPT ![d].pc = "returned", ![d].result = "threw " \o step]
    /\ UNCHANGED checkouts

\* cloneRepository: git pull in the checkout that is there, git clone without one
RaceClone(d) ==
    /\ runs[d].pc = "clone"
    /\ RaceWent(d, "cloneRepository", "gather")
    /\ checkouts' = [checkouts EXCEPT ![PathOf(d)] = IF @.exists THEN @ ELSE FreshClone]
    /\ UNCHANGED RaceOthers

\* cloneRepository throws: the handler answers 500, fixBug is not called
RaceCloneThrows(d) ==
    /\ runs[d].pc = "clone"
    /\ runs' = [runs EXCEPT ![d].pc = "responded", ![d].result = "threw cloneRepository"]
    /\ UNCHANGED << checkouts, RaceOthers >>

\* 1. gatherContextForBug
RaceGather(d) ==
    /\ runs[d].pc = "gather"
    /\ \/ RaceWent(d, "gatherContextForBug", "branch") /\ UNCHANGED checkouts
       \/ RaceThrew(d, "gatherContextForBug")
    /\ UNCHANGED RaceOthers

\* 2. createBranch: git checkout -b, which fails when the branch exists
RaceCreateBranch(d) ==
    /\ runs[d].pc = "branch"
    /\ LET c == checkouts[PathOf(d)]
           name == BranchName(runs[d].id)
       IN IF BranchExists(c, name) THEN RaceThrew(d, "createBranch")
          ELSE /\ RaceWent(d, "createBranch", "model")
               /\ checkouts' = [checkouts EXCEPT ![PathOf(d)] =
                    [c EXCEPT !.branches = c.branches \cup { name }, !.current = name,
                              !.log = Append(c.log, [who |-> d, step |-> "createBranch",
                                                     file |-> "", branch |-> name])]]
    /\ UNCHANGED RaceOthers

\* 3. analyzeAndFix: a fix, or a failed fix, which fixBug returns
RaceAnalyzeAndFix(d) ==
    /\ runs[d].pc = "model"
    /\ \/ \E f \in RaceFixes :
            runs' = [runs EXCEPT ![d].pc = "apply", ![d].changes = f,
                                 ![d].did = runs[d].did \cup { "analyzeAndFix" }]
       \/ runs' = [runs EXCEPT ![d].pc = "returned", ![d].result = "failed fix",
                               ![d].did = runs[d].did \cup { "analyzeAndFix" }]
    /\ UNCHANGED << checkouts, RaceOthers >>

\* 4. one iteration of the apply loop: writeFile writes into the working tree
RaceWriteFile(d) ==
    /\ runs[d].pc = "apply"
    /\ runs[d].idx <= Len(runs[d].changes)
    /\ LET c == checkouts[PathOf(d)]
       IN \/ /\ runs' = [runs EXCEPT ![d].idx = runs[d].idx + 1,
                                     ![d].did = runs[d].did \cup { "writeFile" }]
             /\ checkouts' = [checkouts EXCEPT ![PathOf(d)].log =
                    Append(c.log, [who |-> d, step |-> "writeFile",
                                   file |-> runs[d].changes[runs[d].idx],
                                   branch |-> c.current])]
          \/ RaceThrew(d, "writeFile")
    /\ UNCHANGED RaceOthers

\* 5. commit, after the last write: git add of the run's paths and git commit,
\* which commits what the working tree holds at these paths
RaceCommit(d) ==
    /\ runs[d].pc = "apply"
    /\ runs[d].idx > Len(runs[d].changes)
    /\ LET c == checkouts[PathOf(d)]
           commit == [who |-> d, branch |-> CommitBranch(c, BranchName(runs[d].id)),
                      files |-> runs[d].changes,
                      contents |-> [k \in DOMAIN runs[d].changes |->
                                       LastWriter(c, runs[d].changes[k])],
                      at |-> Len(c.log)]
       IN \/ /\ RaceWent(d, "commit", "push")
             /\ checkouts' = [checkouts EXCEPT ![PathOf(d)].commits = Append(c.commits, commit)]
          \/ RaceThrew(d, "commit")
    /\ UNCHANGED RaceOthers

\* 6. pushBranch: git push -u origin of the run's branch
RacePushBranch(d) ==
    /\ runs[d].pc = "push"
    /\ \/ /\ RaceWent(d, "pushBranch", "pr")
          /\ checkouts' = [checkouts EXCEPT ![PathOf(d)].pushed =
                              @ \cup { BranchName(runs[d].id) }]
       \/ RaceThrew(d, "pushBranch")
    /\ UNCHANGED RaceOthers

\* 7. createPR, and fixBug returns the success
RaceCreatePR(d) ==
    /\ runs[d].pc = "pr"
    /\ \/ /\ runs' = [runs EXCEPT ![d].pc = "returned", ![d].result = "success",
                                  ![d].did = runs[d].did \cup { "createPR" }]
          /\ UNCHANGED checkouts
       \/ RaceThrew(d, "createPR")
    /\ UNCHANGED RaceOthers

RaceNext ==
    \E d \in Racers :
        \/ RaceClone(d)
        \/ RaceCloneThrows(d)
        \/ RaceGather(d)
        \/ RaceCreateBranch(d)
        \/ RaceAnalyzeAndFix(d)
        \/ RaceWriteFile(d)
        \/ RaceCommit(d)
        \/ RacePushBranch(d)
        \/ RaceCreatePR(d)

SpecRace == RaceInit /\ [][RaceNext]_vars

-----------------------------------------------------------------------------
(* Properties of gatherContextForBug, checked under SpecCtx *)

CtxReturned == ctxPc = "done"
CtxPastFiles == ctxPc \in {"search", "commits", "done", "thrown"}
CtxPastSearch == ctxPc \in {"commits", "done", "thrown"}

\* the paths of a sequence of records with a path field
PathsOf(s) == [k \in 1..Len(s) |-> s[k].path]

\* C1: the returned bundle's estimatedTokens never exceeds TOKEN_BUDGET
\* (100,000), whatever the sizes of the notes, files, hits and commits.
C1_WithinBudget == CtxReturned => estimatedTokens <= TOKEN_BUDGET

C3_SearchRule ==
    CtxPastSearch =>
        /\ searchCall.ran <=> (Len(signals.errors) > 0 /\ tokAfter.files < 80000)
        /\ searchCall.ran => searchCall.pattern = signals.errors[1]
        /\ (searchCall.ran /\ ctxPc # "thrown") =>
            /\ Len(searchResults) <= 20
            /\ Len(searchResults) = Min(20, Len(searchCall.hits))
            /\ \A k \in DOMAIN searchResults :
                /\ searchResults[k] = searchCall.hits[k]
                /\ searchResults[k].pat = signals.errors[1]
        /\ ~searchCall.ran =>
            /\ searchResults = << >>
            /\ tokAfter.search = tokAfter.files

\* C3 witness: a returned bundle whose search, for an issue with two error
\* strings, found more than 20 hits.
C3_Witness ==
    /\ CtxReturned
    /\ searchCall.ran
    /\ Len(signals.errors) = 2
    /\ Len(searchCall.hits) > 20

C5_NeverRaises == ctxPc # "thrown"

\* C6: a failed sub-fetch only drops that item.  With the notes unreadable
\* staticContext is the placeholder, nothing is counted for it, and the file,
\* search and commit steps run as their own guards say; an unreadable
\* mentioned file is skipped, leaves the running total unchanged, and the
\* paths after it are still visited.
C6_FailedFetchDropsOnlyThatItem ==
    /\ (staticContext.kind = "placeholder") =>
        /\ staticContext.len = PlaceholderLen
        /\ tokAfter.notes = 0
        /\ CtxPastFiles => Len(fileLog) = Len(signals.files)
        /\ CtxPastSearch => (searchCall.ran <=> Len(signals.errors) > 0)
        /\ CtxReturned => (commitCall.ran <=> tokAfter.search < 85000)
    /\ \A k \in DOMAIN fileLog :
        fileLog[k].outcome = "unreadable" =>
            /\ fileLog[k].after = fileLog[k].before
            /\ \A r \in DOMAIN relevantFiles : relevantFiles[r].path # fileLog[k].path
            /\ (CtxPastFiles /\ k < Len(signals.files)) => Len(fileLog) > k

\* C6 witness: a returned bundle built without the notes file, in which an
\* unreadable mentioned file is followed by an included one.
C6_Witness ==
    /\ CtxReturned
    /\ staticContext.kind = "placeholder"
    /\ commitCall.ran
    /\ \E i, j \in DOMAIN fileLog :
        i < j /\ fileLog[i].outcome = "unreadable" /\ fileLog[j].outcome = "included"

\* a quarter of n, rounded up
QuarterUp(n) == (n \div 4) + (IF n % 4 = 0 THEN 0 ELSE 1)

RECURSIVE FileTokens(_, _)
\* the estimates of the first n included files' contents, added up
FileTokens(s, n) == IF n = 0 THEN 0 ELSE QuarterUp(s[n].len) + FileTokens(s, n - 1)

\* C25: the estimatedTokens of a returned bundle is the sum of ceil(length/4)
\* over the notes when they were read, each included file's content, the JSON
\* of the kept search hits when the search ran, and the JSON of the commit
\* records when they were fetched; the issue and the placeholder add nothing.
C25_EstimateIsSumOfParts ==
    CtxReturned =>
        estimatedTokens
            = (IF staticContext.kind = "notes" THEN QuarterUp(staticContext.len) ELSE 0)
              + FileTokens(relevantFiles, Len(relevantFiles))
              + (IF searchCall.ran THEN QuarterUp(HitsJsonLen(searchResults)) ELSE 0)
              + (IF commitCall.ran THEN QuarterUp(CommitsJsonLen(recentCommits)) ELSE 0)

\* C25 witness: a returned bundle with all four parts, one of them a file
\* whose length is not a multiple of four.
C25_Witness ==
    /\ CtxReturned
    /\ staticContext.kind = "notes"
    /\ staticContext.len > 0
    /\ \E r \in DOMAIN relevantFiles : relevantFiles[r].len % 4 # 0
    /\ searchCall.ran
    /\ searchResults # << >>
    /\ commitCall.ran
    /\ recentCommits # << >>

\* C25 witness: a returned bundle built with the placeholder, whose thirty
\* characters are not counted.
C25_WitnessPlaceholder ==
    /\ CtxReturned
    /\ staticContext.kind = "placeholder"
    /\ relevantFiles = << >>
    /\ ~searchCall.ran
    /\ commitCall.ran
    /\ estimatedTokens = QuarterUp(CommitsJsonLen(recentCommits))

\* C26: every inclusion of a file leaves the running total strictly below
\* 70,000 and a readable file that would bring it to 70,000 or more is not
\* included; with a file included the total after the file phase is below
\* 70,000; with notes of 70,000 tokens or more no file is read or included.
C26_FilesStayBelowSeventyThousand ==
    /\ \A k \in DOMAIN fileLog :
        /\ fileLog[k].outcome = "included" =>
            /\ fileLog[k].after = fileLog[k].before + fileLog[k].tokens
            /\ fileLog[k].after < 70000
        /\ (fileLog[k].outcome # "unreadable"
                /\ fileLog[k].before + fileLog[k].tokens >= 70000) =>
            /\ fileLog[k].outcome = "rejected"
            /\ fileLog[k].after = fileLog[k].before
    /\ Len(relevantFiles) = Len(SelectSeq(fileLog, LAMBDA e : e.outcome = "included"))
    /\ (ctxPc = "files" /\ relevantFiles # << >>) => tokensUsed < 70000
    /\ (CtxPastFiles /\ relevantFiles # << >>) => tokAfter.files < 70000
    /\ (ctxPc # "notes" /\ tokAfter.notes >= 70000) =>
        /\ fileLog = << >>
        /\ relevantFiles = << >>

\* C26 witness: a file that would bring the total to exactly 70,000 is left
\* out after another one was included.
C26_Witness ==
    /\ CtxPastFiles
    /\ \E i, j \in DOMAIN fileLog :
        /\ fileLog[i].outcome = "included"
        /\ fileLog[j].outcome = "rejected"
        /\ fileLog[j].before + fileLog[j].tokens = 70000

\* C26 witness: notes of more than 70,000 tokens and a bundle without files
\* for an issue that names some.
C26_WitnessLargeNotes ==
    /\ CtxPastFiles
    /\ tokAfter.notes >= 70000
    /\ signals.files # << >>
    /\ fileLog = << >>

-----------------------------------------------------------------------------
(* Properties of fixBug, checked under Spec *)

\* the place of a step in fixBug
Rank(step) ==
    CASE step = "gatherContextForBug" -> 0
      [] step = "createBranch" -> 1
      [] step = "analyzeAndFix" -> 2
      [] step = "writeFile" -> 3
      [] step = "commit" -> 4
      [] step = "pushBranch" -> 5
      [] step = "createPR" -> 6

\* the step ran and returned
Did(step) == \E k \in DOMAIN fixSteps : fixSteps[k].step = step /\ fixSteps[k].out = "ok"

\* the number of writeFile calls that returned
WritesDone == Cardinality({ k \in DOMAIN fixSteps :
                              fixSteps[k].step = "writeFile" /\ fixSteps[k].out = "ok" })

\* C7: the steps run in the order create branch, write every changed file,
\* commit, push, open pull request; when a step throws no later step runs,
\* what was done stays done (branch, written files, staged paths, commit,
\* push), and fixBug returns success = false with the thrown error's message.
C7_StrictOrderNoRollback ==
    /\ \A i, j \in DOMAIN fixSteps :
        i < j =>
            /\ Rank(fixSteps[i].step) <= Rank(fixSteps[j].step)
            /\ fixSteps[i].step = fixSteps[j].step => fixSteps[i].step = "writeFile"
            /\ fixSteps[i].out = "ok"
    /\ \A k \in DOMAIN fixSteps :
        /\ fixSteps[k].step \in { "analyzeAndFix", "writeFile" } => Did("createBranch")
        /\ fixSteps[k].step = "writeFile" => Did("analyzeAndFix")
        /\ fixSteps[k].step = "commit" => WritesDone = Len(fix.changes) /\ WritesDone > 0
        /\ fixSteps[k].step = "pushBranch" => Did("commit")
        /\ fixSteps[k].step = "createPR" => Did("pushBranch")
        /\ fixSteps[k].out = "threw" =>
            /\ k = Len(fixSteps)
            /\ fixPc = "returned"
            /\ ~fixResult.success
            /\ fixResult.error = fixSteps[k].msg
    /\ Did("createBranch") =>
        /\ BranchName(issue.id) \in branches
        /\ currentBranch = BranchName(issue.id)
    /\ written = SubSeq(ChangedPaths(fix), 1, WritesDone)
    /\ Did("commit") <=> commits # << >>
    /\ Did("commit") => commits = << [branch |-> BranchName(issue.id), files |-> written] >>
    /\ Did("pushBranch") <=> BranchName(issue.id) \in pushed
    /\ Did("createPR") <=> prs # << >>

\* C7 witness: the push threw after the branch, two written files and the
\* commit, and fixBug returned the failure.
C7_Witness ==
    /\ fixPc = "returned"
    /\ fixSteps[Len(fixSteps)] = Step("pushBranch", "threw", "Failed to push branch")
    /\ Len(written) = 2
    /\ Len(commits) = 1
    /\ currentBranch = BranchName(issue.id)
    /\ ~fixResult.success

\* the model step yielded a failed fix
ModelFailed ==
    /\ \E k \in DOMAIN fixSteps : fixSteps[k].step = "analyzeAndFix"
    /\ ~fix.success

\* C8 as stated: when the model step yields a failed fix (API error,
\* unparseable reply, invalid structure, empty changes), no branch has been
\* created, no file written and no commit made when fixBug returns.
C8_FailedFixLeavesCheckoutUntouched ==
    (fixPc = "returned" /\ ModelFailed) =>
        /\ ~Did("createBranch")
        /\ BranchName(issue.id) \notin branches
        /\ written = << >>
        /\ commits = << >>

\* C8 as amended: when the model step yields a failed fix, no file has been
\* written, no path staged, no commit made, nothing pushed and no pull
\* request opened; the branch, which fixBug creates before it calls the
\* model, exists and is checked out, and fixBug returns the failed fix as a
\* result with success = false.
C8_FailedFixLeavesOnlyTheBranch ==
    ModelFailed =>
        /\ fixPc = "returned"
        /\ written = << >>
        /\ staged = << >>
        /\ commits = << >>
        /\ pushed = {}
        /\ prs = << >>
        /\ Did("createBranch")
        /\ BranchName(issue.id) \in branches
        /\ currentBranch = BranchName(issue.id)
        /\ ~fixResult.success
        /\ fixResult.files = << >>
        /\ fixResult.error = fix.error
        /\ fix.error \in ApiErrors \cup { NoJsonError, SyntaxErrorMessage,
                                         InvalidStructureError, NoFixError }

\* C8 witness: fixBug returned after the model answered with an empty
\* changes list.
C8_Witness ==
    /\ fixPc = "returned"
    /\ ModelFailed
    /\ fix.error = NoFixError

\* the number of calls of analyzeAndFix, each of which sends one request to
\* the model
ModelCalls == Cardinality({ k \in DOMAIN fixSteps : fixSteps[k].step = "analyzeAndFix" })

\* the model call failed with an API error
ApiErrorCaught ==
    \E k \in DOMAIN fixSteps :
        /\ fixSteps[k] = Step("analyzeAndFix", "failed", fix.error)
        /\ fix.reasoning = Str("API error")

\* C12: a run of fixBug calls the model at most once, with no retry after an
\* API error or an unparseable reply; an API error yields a failed fix whose
\* error is the API error's message, and fixBug returns it.
C12_OneModelCallNoRetry ==
    /\ ModelCalls <= 1
    /\ (ModelCalls = 1 /\ ~fix.success) =>
        /\ fixPc = "returned"
        /\ fixSteps[Len(fixSteps)].step = "analyzeAndFix"
        /\ ~fixResult.success
    /\ ApiErrorCaught =>
        /\ fix = ApiFailure(fix.error)
        /\ fix.error \in ApiErrors
        /\ fixPc = "returned"
        /\ ~fixResult.success
        /\ fixResult.error = fix.error

\* C12 witness: the API answered 429, and fixBug returned after its one call.
C12_Witness ==
    /\ fixPc = "returned"
    /\ ModelCalls = 1
    /\ ApiErrorCaught
    /\ fixResult.error = "429 rate_limit_error"

\* the paths of a sequence of path values, as a set
PathSet(s) == { s[k] : k \in DOMAIN s }

\* the paths of the changes list the model returned
PathsOfChanges == { Get(fix.changes[k], "path") : k \in DOMAIN fix.changes }

\* C13: in a successful run of fixBug the set of paths written, the set of
\* paths staged and the result's files list are each exactly the paths of the
\* model's changes list, every write went to such a path, and exactly one
\* commit was made (of these paths, on the fix branch).
C13_OnlyTheChangedPaths ==
    (fixPc = "returned" /\ fixResult.success) =>
        /\ PathSet(written) = PathsOfChanges
        /\ PathSet(staged) = PathsOfChanges
        /\ PathSet(fixResult.files) = PathsOfChanges
        /\ Len(written) = Len(fix.changes)
        /\ \A p \in PathsOfChanges : p.t = "string"
        /\ Len(commits) = 1
        /\ PathSet(commits[1].files) = PathsOfChanges
        /\ commits[1].branch = BranchName(issue.id)

\* C13 witness: a successful run for a fix of two changes.
C13_Witness ==
    /\ fixPc = "returned"
    /\ fixResult.success
    /\ Len(fix.changes) = 2
    /\ Len(written) = 2
    /\ Len(staged) = 2
    /\ Len(prs) = 1

\* C28: in every result of fixBug, success means a non-empty files list, a
\* pull request URL and number, and no error; failure means an empty files
\* list, no pull request URL, and an error, whatever was written or committed
\* before the failure.
C28_ResultShape ==
    fixPc = "returned" =>
        /\ fixResult.success =>
            /\ fixResult.files # << >>
            /\ fixResult.prUrl # "undefined"
            /\ fixResult.prNumber > 0
            /\ fixResult.error = NoError
            /\ \E k \in DOMAIN prs :
                prs[k].url = fixResult.prUrl /\ prs[k].number = fixResult.prNumber
        /\ ~fixResult.success =>
            /\ fixResult.files = << >>
            /\ fixResult.prUrl = "undefined"
            /\ fixResult.error # NoError
            /\ fixResult.error # ""

\* C28 witness: a failure returned after the changes were written and
\* committed (the push or the pull request call threw).
C28_Witness ==
    /\ fixPc = "returned"
    /\ ~fixResult.success
    /\ written # << >>
    /\ commits # << >>
    /\ fixResult.files = << >>

\* C28 witness: a success, with the files of the fix and the pull request.
C28_WitnessSuccess ==
    /\ fixPc = "returned"
    /\ fixResult.success
    /\ Len(fixResult.files) = Len(written)
    /\ prs # << >>

-----------------------------------------------------------------------------
(* Properties of parseClaudeResponse, checked under SpecParse *)

Parsed == parsePc = "done"

\* the reply is prose, one JSON object, prose, and the slice from the first
\* { to the last } is that object: no { before it, no } after it
ObjectIsTheSlice ==
    /\ reply.kind = "wrapped"
    /\ \A k \in DOMAIN reply.prefix : reply.prefix[k] # "{"
    /\ \A k \in DOMAIN reply.suffix : reply.suffix[k] # "}"

\* the reply's object has a non-empty reasoning and a non-empty description
HasReasoningAndDescription ==
    /\ Truthy(Get(reply.doc, "reasoning"))
    /\ Truthy(Get(reply.doc, "description"))

\* the reply's object says "could not fix": reasoning, description, changes = []
SaysCouldNotFix ==
    /\ ObjectIsTheSlice
    /\ HasReasoningAndDescription
    /\ Get(reply.doc, "changes") = Arr(<< >>)

\* the reply's object is a fix: reasoning, description, a non-empty changes list
IsFix ==
    /\ reply.kind = "wrapped"
    /\ HasReasoningAndDescription
    /\ IsArray(Get(reply.doc, "changes"))
    /\ Len(Get(reply.doc, "changes").items) > 0

\* the result is the reply's fix
ReturnsTheFix ==
    /\ parseResult.success
    /\ parseResult.changes = Get(reply.doc, "changes").items
    /\ parseResult.description = Get(reply.doc, "description")
    /\ parseResult.reasoning = Get(reply.doc, "reasoning")

\* C9: a reply whose object has reasoning, description and changes = [] yields
\* success = false with the reply's reasoning and description and an error
\* string that no reply without an object, with unparseable JSON or with an
\* invalid structure yields.
C9_EmptyChangesIsItsOwnFailure ==
    Parsed =>
        /\ SaysCouldNotFix =>
            /\ ~parseResult.success
            /\ parseResult.changes = << >>
            /\ parseResult.reasoning = Get(reply.doc, "reasoning")
            /\ parseResult.description = Get(reply.doc, "description")
            /\ parseResult.error = "AI could not generate a confident fix"
        /\ ~SaysCouldNotFix =>
            /\ parseResult.error # "AI could not generate a confident fix"
            /\ ~parseResult.success =>
                parseResult.error \in { NoJsonError, SyntaxErrorMessage,
                                        InvalidStructureError }

\* C9 witness: a could-not-fix object between two runs of prose, parsed.
C9_Witness ==
    /\ Parsed
    /\ SaysCouldNotFix
    /\ reply.prefix # << >>
    /\ reply.suffix # << >>
    /\ parseResult.error = NoFixError

\* C10 as stated: for every reply prefix + J + suffix with J a fix and the
\* prefix and suffix arbitrary prose, the result is success = true with
\* exactly J's changes, description and reasoning.
C10_AnyProseAroundTheFix == (Parsed /\ IsFix) => ReturnsTheFix

\* C10 as amended: the same, for prose with no { before J and no } after J.
C10_ProseWithoutBracesAroundTheFix ==
    (Parsed /\ IsFix /\ ObjectIsTheSlice) => ReturnsTheFix

\* C10 witness: a fix of two changes between two runs of prose, parsed.
C10_Witness ==
    /\ Parsed
    /\ IsFix
    /\ ObjectIsTheSlice
    /\ reply.prefix # << >>
    /\ reply.suffix # << >>
    /\ Len(parseResult.changes) = 2

\* the reply has no well-formed object between its first { and its last }
NoObjectInReply == reply.kind = "other" \/ ~ObjectIsTheSlice

\* the reply's object lacks reasoning or description, or its changes is no list
LacksRequiredFields ==
    /\ ObjectIsTheSlice
    /\ ~HasReasoningAndDescription \/ ~IsArray(Get(reply.doc, "changes"))

\* r is the first 500 characters of the reply's text, the whole text when it
\* is shorter: whole lexemes from the start and n characters of the next one
IsFirstCharsOfReply(r) ==
    LET w == Len(r.items)
    IN /\ r.t = "raw"
       /\ w <= Len(reply.text)
       /\ \A k \in 1..w : r.items[k] = Str(reply.text[k])
       /\ CharsOf(reply.text, w) + r.n = Min(500, CharsOf(reply.text, Len(reply.text)))
       /\ r.n > 0 => w < Len(reply.text) /\ r.n < CharLen(reply.text[w + 1])
       /\ r.n = 0 /\ w < Len(reply.text) => CharsOf(reply.text, w) = 500

\* C11: for every reply with no JSON object, with a first-{-to-last-} slice
\* that does not parse, or with an object that lacks reasoning or description
\* or whose changes is not a list, parseClaudeResponse returns success =
\* false, changes = [], reasoning = the first 500 characters of the raw reply
\* (the whole reply when it is shorter) and an error.
C11_MalformedReplyIsAFailure ==
    (Parsed /\ (NoObjectInReply \/ LacksRequiredFields)) =>
        /\ ~parseResult.success
        /\ parseResult.changes = << >>
        /\ IsFirstCharsOfReply(parseResult.reasoning)
        /\ parseResult.error # NoError
        /\ parseResult.error \in { NoJsonError, SyntaxErrorMessage, InvalidStructureError }

\* C11 witness: an object without a description, followed by 600 characters
\* of prose, parsed: the reasoning ends inside the prose.
C11_Witness ==
    /\ Parsed
    /\ LacksRequiredFields
    /\ Get(reply.doc, "description") = Undefined
    /\ reply.suffix = << LongProse >>
    /\ parseResult.error = InvalidStructureError
    /\ Len(parseResult.reasoning.items) > 0
    /\ parseResult.reasoning.n > 0


-----------------------------------------------------------------------------
(* Properties of the webhook handler, checked under SpecHook *)

Responded == hookPc = "responded"

\* the event carries the trigger label, whatever its case
HasTriggerLabel ==
    \E k \in DOMAIN request.body.labels : request.body.labels[k] \in { "ai-fix", "AI-Fix" }

\* a POST of a well-formed issue event
IssueEventPosted ==
    /\ request.method = "POST"
    /\ request.body.present
    /\ request.body.action # ""
    /\ request.body.type # ""
    /\ request.body.hasData

\* an accepted event: created or updated, with the trigger label
Accepted ==
    /\ IssueEventPosted
    /\ request.body.action \in { "create", "update" }
    /\ HasTriggerLabel

\* the description holds a GitHub URL
DescriptionNamesRepo ==
    \E k \in DOMAIN request.body.description :
        request.body.description[k] \in
            { "https://github.com/acme/web", "github.com/acme/web.git" }

\* the team the mapping is looked up with, in lower case: the team's name,
\* its id when it has no name
LoweredTeam ==
    CASE request.body.team.name = "NAV" -> "nav"
      [] request.body.team.name = "Ops" -> "ops"
      [] OTHER -> request.body.team.id

\* REPO_MAPPING has an entry for the event's team
TeamIsMapped == env.repoMapping # << >> /\ LoweredTeam \in { "nav", "api" }

\* the repository REPO_MAPPING ("NAV=acme/nav,API=acme/api") gives the team
MappedRepo == [owner |-> "acme", repo |-> LoweredTeam]

\* fixBug was called
PipelineRan == fixPc # "idle"

\* the comments sent to the issue tracker
CommentsSent == Cardinality({ k \in DOMAIN commentLog : commentLog[k].sent })

\* no clone or pull, no pipeline run, no model call, no pull request, no comment
NoOutboundCalls ==
    /\ gitCalls = << >>
    /\ ~PipelineRan
    /\ fixSteps = << >>
    /\ prs = << >>
    /\ commentLog = << >>

\* C14: a webhook run in which the model returns one change yields the branch
\* 'fix/' + the lower-cased issue id (the branch every result names, success
\* or failure), exactly one file write, one commit, one pull request and one
\* comment; every completed attempt, success or handled failure, posts
\* exactly one comment.
C14_OneOfEachPerRun ==
    (Responded /\ fixPc = "returned") =>
        /\ fixResult.branch = "fix/lin-1"
        /\ CommentsSent = 1
        /\ (fixResult.success /\ Len(fix.changes) = 1) =>
            /\ Len(written) = 1
            /\ Len(commits) = 1
            /\ Len(prs) = 1

\* C15: with a webhook secret configured, a POST whose signature header is
\* missing or does not match is answered 401, with no clone, no pipeline run
\* and no comment.
C15_BadSignatureIs401 ==
    (request.method = "POST" /\ env.secret /\ request.signature \in { "none", "bad" }
     /\ hookPc # "received") =>
        /\ Responded
        /\ responses = << Response(401, "error", "none", "Invalid signature") >>
        /\ NoOutboundCalls

\* C16: an issue event whose action is neither create nor update, or whose
\* labels do not include the trigger label, is answered 200 with the
\* "ignored" message, and the handler makes no outbound call at all.
C16_UnlabelledEventIsIgnored ==
    (IssueEventPosted /\ hookPc # "received"
     /\ (request.body.action \notin { "create", "update" } \/ ~HasTriggerLabel)) =>
        /\ Responded
        /\ responses = << Response(200, "ignored", "none", "Issue ignored (no ai-fix label)") >>
        /\ NoOutboundCalls

\* C16 witness: a removal of an issue that carries the trigger label was ignored.
C16_Witness ==
    /\ Responded
    /\ IssueEventPosted
    /\ request.body.action = "remove"
    /\ HasTriggerLabel
    /\ responses[1].kind = "ignored"

\* C17: extractRepoInfo resolves the repository from a URL in the
\* description first, then from the REPO_MAPPING entry of the team, then from
\* GITHUB_REPOSITORY: the URL's repository whenever the description holds
\* one, the mapped repository when it holds none and the team is mapped, the
\* default otherwise.
C17_RepoPrecedence ==
    (Accepted /\ hookPc # "received") =>
        repoInfo = IF DescriptionNamesRepo THEN [owner |-> "acme", repo |-> "web"]
                   ELSE IF TeamIsMapped THEN MappedRepo
                   ELSE env.githubRepository

\* C17 witness: a URL, a mapping of the team and a default were all there,
\* and the handler went on with the URL's repository.
C17_Witness ==
    /\ Accepted
    /\ hookPc = "clone"
    /\ DescriptionNamesRepo
    /\ TeamIsMapped
    /\ env.githubRepository # NoRepo
    /\ repoInfo = [owner |-> "acme", repo |-> "web"]

\* C18: an accepted event for which the description, the team mapping and
\* the default all yield no repository is answered 400, with no clone, no
\* pipeline run and no comment.
C18_NoRepositoryIs400 ==
    (Accepted /\ hookPc # "received"
     /\ ~DescriptionNamesRepo /\ ~TeamIsMapped /\ env.githubRepository = NoRepo) =>
        /\ Responded
        /\ responses = << Response(400, "error", "none",
                                   "Could not determine GitHub repository") >>
        /\ NoOutboundCalls

\* C18 witness: REPO_MAPPING is set but has no entry for the team, nothing
\* else names a repository, and the handler answered 400.
C18_Witness ==
    /\ Responded
    /\ Accepted
    /\ env.repoMapping # << >>
    /\ request.body.team.name = "Ops"
    /\ ~DescriptionNamesRepo
    /\ env.githubRepository = NoRepo
    /\ responses[1].status = 400

\* the success flag of a result, as the response's body carries it
Flag(b) == IF b THEN "true" ELSE "false"

\* C19: whenever the pipeline returns a result the handler answers 200 with
\* a summary whose success flag is the result's; the status is 500 exactly
\* when an exception escapes the stages (invalid payload, clone or pull
\* failure); every invocation sends exactly one response.
C19_ResultIs200 ==
    /\ Len(responses) <= 1
    /\ Responded <=> Len(responses) = 1
    /\ (Responded /\ fixPc = "returned") =>
        /\ responses[1].status = 200
        /\ responses[1].kind = "result"
        /\ responses[1].success = Flag(fixResult.success)
    /\ (Responded /\ responses[1].status = 500) =>
        \/ request.method = "POST" /\ ~IssueEventPosted
        \/ gitCalls # << >> /\ ~PipelineRan

\* C20: for every accepted event with a resolved repository, when the fix
\* attempt fails at any stage (clone or pull, context gathering, model call,
\* any step of the change applier) a comment has been posted on the issue
\* when the handler responds.
C20_FailureAlwaysCommented ==
    (Responded /\ Accepted /\ repoInfo # NoRepo
     /\ ~(fixPc = "returned" /\ fixResult.success)) =>
        CommentsSent >= 1

\* the handler answered with resp and did nothing else
FilteredWith(resp) ==
    /\ Responded
    /\ responses = << resp >>
    /\ NoOutboundCalls

\* nothing names a repository for the event
NoRepositoryNamed ==
    ~DescriptionNamesRepo /\ ~TeamIsMapped /\ env.githubRepository = NoRepo

\* the checks in the order method, signature, payload shape, action and
\* label, repository, the first one that fails giving the response, for a
\* signature check that fails when signatureFails holds
OrderOfChecks(signatureFails) ==
    hookPc # "received" =>
        IF request.method # "POST"
        THEN FilteredWith(Response(405, "error", "none", "Method not allowed"))
        ELSE IF signatureFails
        THEN FilteredWith(Response(401, "error", "none", "Invalid signature"))
        ELSE IF ~IssueEventPosted
        THEN FilteredWith(Response(500, "error", "none", "Invalid Linear webhook payload"))
        ELSE IF ~Accepted
        THEN FilteredWith(Response(200, "ignored", "none", "Issue ignored (no ai-fix label)"))
        ELSE IF NoRepositoryNamed
        THEN FilteredWith(Response(400, "error", "none",
                                   "Could not determine GitHub repository"))
        ELSE hookPc = "clone" \/ gitCalls # << >>

\* the order of the checks other than the signature check, which never
\* fails: this holds in every state
HandlerOrderApartFromSignature == OrderOfChecks(FALSE)

\* C24: the handler applies its checks in the order method (405), signature
\* (401), payload shape (500), action and label filter (200 ignored),
\* repository resolution (400); the first check that fails alone determines
\* the response and nothing later runs, the signature check failing when a
\* secret is configured and the signature header is missing or wrong.
C24_ChecksInFixedOrder ==
    OrderOfChecks(env.secret /\ request.signature \in { "none", "bad" })

-----------------------------------------------------------------------------
(* Properties of the command line tool, checked under SpecCli *)

\* neither --issue nor --description is among the arguments
NoInputGiven == \A k \in DOMAIN argv : argv[k] \notin { "--issue", "--description" }

\* main refused to start: a diagnostic on stderr, exit status 1, no pipeline
Refused ==
    /\ cliPc = "exited"
    /\ exitStatus # 0 /\ exitStatus # Running
    /\ Len(printed) = 1
    /\ printed[1].stream = "stderr"
    /\ ~PipelineRan
    /\ fixSteps = << >>

C22_FailureExitsNonZero ==
    /\ (cliPc = "exited" /\ PipelineRan /\ ~fixResult.success) =>
        /\ printed # << >>
        /\ exitStatus # 0
    /\ exitStatus = 0 => PipelineRan /\ fixResult.success

-----------------------------------------------------------------------------
(* Properties of two deliveries at once, checked under SpecRace *)

\* the branch the checkout was switched to by the last git checkout -b among
\* the first n steps of its log, "main" without one
BranchAfter(c, n) ==
    LET at == { k \in 1..n : c.log[k].step = "createBranch" }
    IN IF at = {} THEN "main" ELSE c.log[CHOOSE k \in at : \A j \in at : j <= k].branch

\* the checkout directory of a repository
DirOf(repo) == IF repo.repo = "main" THEN "/tmp/acme-main" ELSE "/tmp/acme-web"

\* delivery d is between its branch creation and its commit
BetweenBranchAndCommit(d) ==
    /\ runs[d].pc \in { "model", "apply" }
    /\ "createBranch" \in runs[d].did

\* C23: two deliveries that resolve to the same repository work in the same
\* checkout directory with no mutual exclusion: every write and every commit
\* of a delivery lands on the branch the checkout was switched to last, by
\* whichever delivery, and a commit takes each file as it was last written, by
\* whichever delivery. (The interleaving in which both deliveries are between
\* branch creation and commit, and one writes on the other's branch, is the
\* state of C23_Witness.)
C23_SharedCheckoutNoIsolation ==
    \A p \in RacePaths :
        LET c == checkouts[p]
        IN /\ \A k \in DOMAIN c.log :
                /\ p = DirOf(runs[c.log[k].who].repo)
                /\ c.log[k].branch = BranchAfter(c, k)
           /\ \A k \in DOMAIN c.commits :
                /\ p = DirOf(runs[c.commits[k].who].repo)
                /\ c.commits[k].branch = BranchAfter(c, c.commits[k].at)
                /\ \A i \in DOMAIN c.commits[k].files :
                    \E j \in 1..c.commits[k].at :
                        /\ c.log[j] = [who |-> c.commits[k].contents[i], step |-> "writeFile",
                                       file |-> c.commits[k].files[i],
                                       branch |-> c.log[j].branch]
                        /\ \A l \in (j + 1)..c.commits[k].at :
                            ~(c.log[l].step = "writeFile"
                              /\ c.log[l].file = c.commits[k].files[i])

\* C23 witness: both deliveries are between their branch creation and their
\* commit in one checkout, and the one that created its branch first has
\* written a file on the other's branch.
C23_Witness ==
    /\ runs[1].repo = runs[2].repo
    /\ BetweenBranchAndCommit(1)
    /\ BetweenBranchAndCommit(2)
    /\ \E k \in DOMAIN checkouts[PathOf(1)].log :
        /\ checkouts[PathOf(1)].log[k].step = "writeFile"
        /\ checkouts[PathOf(1)].log[k].who = 1
        /\ checkouts[PathOf(1)].log[k].branch = "fix/lin-2"

\* delivery d created its branch
CreatedBranch(d) == "createBranch" \in runs[d].did

\* the steps of fixBug after the branch creation
LaterSteps == { "analyzeAndFix", "writeFile", "commit", "pushBranch", "createPR" }

=============================================================================
